---- MODULE Spec2Model ----
(***************************************************************************)
(* Entity identity cache, lazy fetch and live XML projections of           *)
(* pyclarity-lims (entities.py, descriptors.py), as a state machine.       *)
(*                                                                         *)
(* An entity object is a record [cls, uri, root]; root is 0 (None) or the  *)
(* index of a document in heap, so that two roots with equal content are   *)
(* still two roots.  The transport (lims.get/put/post) is the environment: *)
(* calls holds the transport calls made by the last operation.             *)
(*                                                                         *)
(* Specifications, all over the same variables: Spec (cache, get, put,     *)
(* post, create), SpecFail (the same with a transport that can raise),     *)
(* SpecUdf (UdfDictionary), SpecScalar (string, integer and boolean        *)
(* descriptors), SpecNest (Nestable.rootnode), SpecRef (EntityDescriptor), *)
(* SpecList (XmlList / EntityList), SpecUdt (UdfDictionary with a UDT,     *)
(* clear, udt, assignment), SpecIO (InputOutputMapList, all_inputs) and    *)
(* SpecPlacement (PlacementDictionary).                                    *)
(***************************************************************************)
EXTENDS Integers, Sequences, FiniteSets, TLC

VARIABLES cache, objs, heap, calls, last, udf, server, nops, xlist, hist

vars == <<cache, objs, heap, calls, last, udf, server, nops, xlist, hist>>

\* ---------------------------------------------------------------- bounds
MaxObj == 2      \* entity objects alive in one run
MaxRoots == 2    \* documents ever parsed in one run
MaxOps == 2      \* dictionary set and delete operations in one run

\* ------------------------------------------------------------ vocabulary
Classes == {"Lab", "ReagentType", "Step"}

\* The LIMS ids constructions are called with.
Ids == {"a1"}

NoURI == <<"None", "", "">>

\* Entity._URI of each class (None for StepPlacements).
URI_of(cls) ==
  CASE cls = "Lab" -> "labs"
    [] cls = "ReagentType" -> "reagenttypes"
    [] cls = "Step" -> "steps"
    [] OTHER -> "None"

\* lims.get_uri(cls._URI, id): the URI whose last path segment is id.
get_uri(cls, id) == <<URI_of(cls), id, "">>

\* lims.get_uri(cls._URI): the collection URI a creation is posted to.
get_uri_coll(cls) == <<URI_of(cls), "", "">>

NoText == "<absent>"

\* The document lims.get(uri) parses: the server's copy of the resource,
\* with the user-defined fields the server holds for it.
ServerDoc(u) ==
  [uri |-> u, name |-> "srv", fields |-> server, nextEid |-> Len(server) + 1]

\* ElementTree.Element(nsmap(prefix + ':' + tag)): a root without children.
EmptyDoc == [uri |-> NoURI, name |-> NoText, fields |-> <<>>, nextEid |-> 1]

\* lims.tostring(ElementTree.ElementTree(root)): the bytes sent, which
\* carry the content of the tree but not its identity.
tostring(doc) == [xml_uri |-> doc.uri, xml_name |-> doc.name, xml_fields |-> doc.fields]

NoProj == [instance |-> 0, elems |-> <<>>, dict |-> <<>>]

\* No list projection obtained yet.
NoList == [instance |-> 0, elems |-> <<>>, items |-> <<>>]


PyNone == [t |-> "NoneType", v |-> "None"]

NoLast == [op |-> "init", obj |-> 0, arg |-> "", uri |-> NoURI, err |-> "none",
           key |-> "", value |-> PyNone]

\* What the last operation was called with and how it ended: obj is the
\* entity it returned or acted on, uri the uri it was called with.
Done(op, o, arg, err) == [NoLast EXCEPT !.op = op, !.obj = o, !.arg = arg, !.err = err]

Constructed(o, cls, u) == [NoLast EXCEPT !.op = "construct", !.obj = o, !.arg = cls, !.uri = u]

Call(verb, u, data) == [verb |-> verb, uri |-> u, data |-> data]

NoData == [xml_uri |-> NoURI, xml_name |-> NoText, xml_fields |-> <<>>]

\* A tree that nothing refers to any more is freed: the entity's old root
\* when the root is replaced, unless a dictionary still holds elements of it.
Release(h, rid) ==
  IF rid = 0 \/ \E i \in DOMAIN udf.elems : udf.elems[i].rid = rid
    THEN h
    ELSE [h EXCEPT ![rid] = [uri |-> NoURI, name |-> "<freed>", fields |-> <<>>, nextEid |-> 0]]

\* ------------------------------------------------------------------ init
Init ==
  /\ cache = [u \in {} |-> 0]
  /\ objs = <<>>
  /\ heap = <<>>
  /\ calls = <<>>
  /\ last = NoLast
  /\ udf = NoProj
  /\ server = <<>>
  /\ nops = 0
  /\ xlist = NoList
  /\ hist = <<>>

\* try: return lims.cache[uri] / except KeyError
InCache_never(u) == FALSE

InCache(u) == u \in DOMAIN cache

\* ------------------------------------------------- Entity.__new__/__init__
\* cls(lims, uri=u): __new__ returns the cached object when lims.cache has
\* u, else a new object that __init__ registers under u with root None.
\* Python runs __init__ on a cached object only when it is an instance of
\* cls; __init__ then returns at hasattr(self, 'lims').  ReagentType.__init__
\* goes on to fetch the document, whether or not the object was cached.
Entity_new_hit(cls, u) ==
  /\ InCache(u)
  /\ LET o == cache[u] IN
       /\ objs[o].cls # cls \/ cls # "ReagentType"
       /\ UNCHANGED <<cache, objs, heap, udf, server, nops, xlist, hist>>
       /\ calls' = <<>>
       /\ last' = Constructed(o, cls, u)

Entity_new_miss(cls, u) ==
  /\ ~InCache(u)
  /\ cls # "ReagentType"
  /\ Len(objs) < MaxObj
  /\ LET o == Len(objs) + 1 IN
       /\ objs' = Append(objs, [cls |-> cls, uri |-> u, root |-> 0])
       /\ cache' = [x \in DOMAIN cache \cup {u} |-> IF x = u THEN o ELSE cache[x]]
       /\ UNCHANGED <<heap, udf, server, nops, xlist, hist>>
       /\ calls' = <<>>
       /\ last' = Constructed(o, cls, u)

ReagentType_init(u) ==
  /\ Len(heap) < MaxRoots
  /\ \/ /\ InCache(u)
        /\ objs[cache[u]].cls = "ReagentType"
        /\ objs' = [objs EXCEPT ![cache[u]].root = Len(heap) + 1]
        /\ UNCHANGED cache
        /\ last' = Constructed(cache[u], "ReagentType", u)
     \/ /\ ~InCache(u)
        /\ Len(objs) < MaxObj
        /\ LET o == Len(objs) + 1 IN
             /\ objs' = Append(objs, [cls |-> "ReagentType", uri |-> u, root |-> Len(heap) + 1])
             /\ cache' = [x \in DOMAIN cache \cup {u} |-> IF x = u THEN o ELSE cache[x]]
             /\ last' = Constructed(o, "ReagentType", u)
  /\ heap' = Append(IF InCache(u) THEN Release(heap, objs[cache[u]].root) ELSE heap,
                     ServerDoc(u))
  /\ calls' = <<Call("GET", u, NoData)>>
  /\ UNCHANGED <<udf, server, nops, xlist, hist>>

Construct(cls, u) ==
  \/ Entity_new_hit(cls, u)
  \/ Entity_new_miss(cls, u)
  \/ (cls = "ReagentType" /\ ReagentType_init(u))

\* cls(lims, uri=u) and cls(lims, id=i)
ConstructByUri == \E cls \in Classes, u \in {get_uri(c, i) : c \in Classes, i \in Ids} : Construct(cls, u)

ConstructById == \E cls \in Classes, i \in Ids : Construct(cls, get_uri(cls, i))

\* ------------------------------------------------------------ Entity.get
\* if not force and self.root is not None: return
needs_fetch_always(root, force) == TRUE

needs_fetch(root, force) == force \/ root = 0

\* The transport calls of one instance.get(force).
get_calls(root, force, u) ==
  IF needs_fetch(root, force) THEN <<Call("GET", u, NoData)>> ELSE <<>>

Entity_get_return(o, force) ==
  /\ ~needs_fetch(objs[o].root, force)
  /\ UNCHANGED <<cache, objs, heap, udf, server, nops, xlist, hist>>
  /\ calls' = get_calls(objs[o].root, force, objs[o].uri)
  /\ last' = Done("get", o, IF force THEN "force" ELSE "", "none")

Entity_get_fetch(o, force) ==
  /\ needs_fetch(objs[o].root, force)
  /\ Len(heap) < MaxRoots
  /\ heap' = Append(Release(heap, objs[o].root), ServerDoc(objs[o].uri))
  /\ objs' = [objs EXCEPT ![o].root = Len(heap) + 1]
  /\ UNCHANGED <<cache, udf, server, nops, xlist, hist>>
  /\ calls' = get_calls(objs[o].root, force, objs[o].uri)
  /\ last' = Done("get", o, IF force THEN "force" ELSE "", "none")

\* self.root = self.lims.get(self.uri), lims.get raising: the assignment
\* is not made.
Entity_get_raise_cleared(o, force) ==
  /\ needs_fetch(objs[o].root, force)
  /\ objs' = [objs EXCEPT ![o].root = 0]
  /\ UNCHANGED <<cache, heap, udf, server, nops, xlist, hist>>
  /\ calls' = get_calls(objs[o].root, force, objs[o].uri)
  /\ last' = Done("get", o, IF force THEN "force" ELSE "", "TransportError")

Entity_get_raise(o, force) ==
  /\ needs_fetch(objs[o].root, force)
  /\ UNCHANGED <<cache, objs, heap, udf, server, nops, xlist, hist>>
  /\ calls' = get_calls(objs[o].root, force, objs[o].uri)
  /\ last' = Done("get", o, IF force THEN "force" ELSE "", "TransportError")

Entity_get == \E o \in DOMAIN objs, force \in BOOLEAN :
  Entity_get_return(o, force) \/ Entity_get_fetch(o, force)

\* ------------------------------------------------- Entity.put / Entity.post
\* data = tostring(root); lims.put(self.uri, data).  An entity that was
\* never fetched has no tree to serialize: tostring fails before the call.
transport_uri_other(o) == get_uri_coll(objs[o].cls)

transport_uri(o) == objs[o].uri

Entity_send(o, verb, op) ==
  /\ UNCHANGED <<cache, objs, heap, udf, server, nops, xlist, hist>>
  /\ IF objs[o].root = 0
       THEN /\ calls' = <<>>
            /\ last' = Done(op, o, "", "AttributeError")
       ELSE /\ calls' = <<Call(verb, transport_uri(o), tostring(heap[objs[o].root]))>>
            /\ last' = Done(op, o, "", "none")

\* self.lims.put / self.lims.post raising, after the serialization.
Entity_send_raise(o, verb, op) ==
  /\ objs[o].root # 0
  /\ UNCHANGED <<cache, objs, heap, udf, server, nops, xlist, hist>>
  /\ calls' = <<Call(verb, transport_uri(o), tostring(heap[objs[o].root]))>>
  /\ last' = Done(op, o, "", "TransportError")

Entity_put == \E o \in DOMAIN objs : Entity_send(o, "PUT", "put")

Entity_post == \E o \in DOMAIN objs : Entity_send(o, "POST", "post")

\* -------------------------------------------------------- StringDescriptor
\* __get__: instance.get(); node.text (None when the element is absent).
\* __set__: instance.get(); node.text = str(value), the element created
\* when absent.  Both work on the root that get() leaves in place.
StringDescriptor_access(o, op, write) ==
  LET fetch == needs_fetch(objs[o].root, FALSE)
      r == IF fetch THEN Len(heap) + 1 ELSE objs[o].root
      h == IF fetch THEN Append(heap, ServerDoc(objs[o].uri)) ELSE heap
  IN /\ fetch => Len(heap) < MaxRoots
     /\ objs' = [objs EXCEPT ![o].root = r]
     /\ heap' = IF write THEN [h EXCEPT ![r].name = "loc"] ELSE h
     /\ calls' = get_calls(objs[o].root, FALSE, objs[o].uri)
     /\ last' = Done(op, o, IF write THEN "loc" ELSE h[r].name, "none")
     /\ UNCHANGED <<cache, udf, server, nops, xlist, hist>>

StringDescriptor_get == \E o \in DOMAIN objs : StringDescriptor_access(o, "read", FALSE)

StringDescriptor_set == \E o \in DOMAIN objs : StringDescriptor_access(o, "write", TRUE)

\* ----------------------------------------------- Entity._create / create
CreateArgs == {"", "name", "bogus"}

\* hasattr(instance, attribute): the attributes the modelled classes have.
hasattr(attr) == attr = "name"

\* _create: the root built from the keyword arguments.  setattr runs the
\* descriptor's __set__ on the new instance, whose root is already set.
create_payload(attr) ==
  IF attr = "name" THEN [EmptyDoc EXCEPT !.name = "loc"] ELSE EmptyDoc

\* The calls the descriptors make while the payload is built.
create_build_calls_no_root(attr) ==
  IF attr = "" THEN <<>> ELSE get_calls(0, FALSE, NoURI)

create_build_calls(attr) ==
  IF attr = "" THEN <<>> ELSE get_calls(Len(heap) + 1, FALSE, NoURI)

\* cls(lims, _create_new=True) fails for ReagentType, whose __init__ does
\* not take _create_new; an unknown keyword argument fails in _create.
Entity_create_fail(cls, attr) ==
  /\ cls = "ReagentType" \/ (attr # "" /\ ~hasattr(attr))
  /\ UNCHANGED <<cache, objs, heap, udf, server, nops, xlist, hist>>
  /\ calls' = <<>>
  /\ last' = Done("create", 0, cls, "TypeError")

\* instance.root = lims.post(...); instance._uri = instance.root.attrib['uri']
\* The payload root is dropped when the response replaces it.
Entity_create_ok(cls, attr, i) ==
  /\ cls # "ReagentType"
  /\ attr = "" \/ hasattr(attr)
  /\ Len(objs) < MaxObj
  /\ Len(heap) < MaxRoots
  /\ LET o == Len(objs) + 1
         u == get_uri(cls, i)
         payload == create_payload(attr)
     IN /\ heap' = Append(heap, [payload EXCEPT !.uri = u])
        /\ objs' = Append(objs, [cls |-> cls, uri |-> u, root |-> Len(heap) + 1])
        /\ UNCHANGED cache
        /\ calls' = create_build_calls(attr)
                      \o <<Call("POST", get_uri_coll(cls), tostring(payload))>>
        /\ last' = Done("create", o, cls, "none")
        /\ UNCHANGED <<udf, server, nops, xlist, hist>>

\* lims.post raising in create: the instance built by _create is never
\* returned nor cached, and instance.root and instance._uri are not set.
Entity_create_raise(cls, attr) ==
  /\ cls # "ReagentType"
  /\ attr = "" \/ hasattr(attr)
  /\ UNCHANGED <<cache, objs, heap, udf, server, nops, xlist, hist>>
  /\ calls' = create_build_calls(attr)
                \o <<Call("POST", get_uri_coll(cls), tostring(create_payload(attr)))>>
  /\ last' = Done("create", 0, cls, "TransportError")

\* Step.create has its own parameters and is not Entity.create.
Entity_create == \E cls \in Classes \ {"Step"}, attr \in CreateArgs :
  \/ Entity_create_fail(cls, attr)
  \/ \E i \in Ids : Entity_create_ok(cls, attr, i)

\* ------------------------------------------------------------ Step.advance
\* self.root = self.lims.post(uri + '/advance', tostring(self.root))
Step_advance == \E o \in DOMAIN objs :
  /\ objs[o].cls = "Step"
  /\ UNCHANGED <<cache, udf, server, nops, xlist, hist>>
  /\ IF objs[o].root = 0
       THEN /\ calls' = <<>>
            /\ last' = Done("advance", o, "", "AttributeError")
            /\ UNCHANGED <<objs, heap>>
       ELSE /\ Len(heap) < MaxRoots
            /\ calls' = <<Call("POST", <<objs[o].uri[1], objs[o].uri[2], "advance">>, tostring(heap[objs[o].root]))>>
            /\ heap' = Append(Release(heap, objs[o].root), ServerDoc(objs[o].uri))
            /\ objs' = [objs EXCEPT ![o].root = Len(heap) + 1]
            /\ last' = Done("advance", o, "", "none")

\* ----------------------------------------------------- Step.set_placements
\* StepPlacements(lims, uri=self.uri + '/placements') is constructed, then
\* the assignment to selected_containers calls EntityListDescriptor.__set__
\* (self, instance, cls, value) with two arguments: TypeError, before the
\* placements are posted.
Step_set_placements == \E o \in DOMAIN objs :
  /\ objs[o].cls = "Step"
  /\ LET u == <<objs[o].uri[1], objs[o].uri[2], "placements">> IN
       IF InCache(u)
         THEN UNCHANGED <<cache, objs>>
         ELSE /\ Len(objs) < MaxObj
              /\ objs' = Append(objs, [cls |-> "StepPlacements", uri |-> u, root |-> 0])
              /\ cache' = [x \in DOMAIN cache \cup {u} |->
                             IF x = u THEN Len(objs) + 1 ELSE cache[x]]
  /\ UNCHANGED <<heap, udf, server, nops, xlist, hist>>
  /\ calls' = <<>>
  /\ last' = Done("set_placements", o, "", "TypeError")

Next ==
  \/ ConstructByUri
  \/ ConstructById
  \/ Entity_get
  \/ Entity_put
  \/ Entity_post
  \/ StringDescriptor_get
  \/ StringDescriptor_set
  \/ Entity_create
  \/ Step_advance
  \/ Step_set_placements

Spec == Init /\ [][Next]_vars

\* The lifecycle (constructions, get, put, post, create, set_placements)
\* with a transport that can raise in get, put, post and create.
NextFail ==
  \/ ConstructByUri
  \/ Entity_get
  \/ Entity_put
  \/ Entity_post
  \/ Entity_create
  \/ Step_set_placements
  \/ \E o \in DOMAIN objs, force \in BOOLEAN : Entity_get_raise(o, force)
  \/ \E o \in DOMAIN objs : Entity_send_raise(o, "PUT", "put")
  \/ \E o \in DOMAIN objs : Entity_send_raise(o, "POST", "post")
  \/ \E cls \in Classes \ {"Step"}, attr \in CreateArgs : Entity_create_raise(cls, attr)

SpecFail == Init /\ [][NextFail]_vars

\* ============================================================ UdfDictionary
\* Python values written to a dictionary: t is the Python type, v the text
\* str(value) gives.
PyStr(x) == [t |-> "str", v |-> x]

Values ==
  { PyNone, PyStr("other"), PyStr(""), PyStr("two\nlines"),
    [t |-> "int", v |-> "21"], [t |-> "float", v |-> "1.5"],
    [t |-> "bool", v |-> "True"], [t |-> "bool", v |-> "False"],
    [t |-> "date", v |-> "2020-01-02"], [t |-> "list", v |-> "[]"] }

Keys == {"k1", "k2"}

\* node.attrib['type'].lower()
lower(T) ==
  CASE T = "String" -> "string"
    [] T = "Text" -> "text"
    [] T = "Numeric" -> "numeric"
    [] T = "Boolean" -> "boolean"
    [] T = "Date" -> "date"
    [] T = "Uri" -> "uri"
    [] OTHER -> T

SampleText(T) ==
  CASE T = "Numeric" -> "42"
    [] T = "Boolean" -> "true"
    [] T = "Date" -> "2019-12-31"
    [] T = "Text" -> "two\nlines"
    [] OTHER -> "stuff"

Field(eid, T, name, text) == [eid |-> eid, type |-> T, name |-> name, text |-> text]

\* A reference to an element object: the root it was found under and its
\* identity there, with the attributes that are never rewritten.
Ref(rid, f) == [rid |-> rid, eid |-> f.eid, type |-> f.type, name |-> f.name]

\* self._is_string(value)
is_string(value) == value.t = "str"

\* isinstance(value, (int, float)); bool is a subclass of int.
isinstance_number_or_str(value) == value.t \in {"int", "float", "bool", "str"}

isinstance_number(value) == value.t \in {"int", "float", "bool"}

\* isinstance(value, bool)
isinstance_bool(value) == value.t = "bool"

\* isinstance(value, datetime.date)
isinstance_date(value) == value.t = "date"

\* value and 'true' or 'false'
true_or_false(value) == IF value.v = "True" THEN PyStr("true") ELSE PyStr("false")

\* str(value).encode('UTF-8'): a bytes object, not a str.
encode(x) == [t |-> "bytes", v |-> x]

\* if not isinstance(value, str): if not self._is_string(value):
\*     value = str(value).encode('UTF-8')
\* The text the element gets: a str as it is, bytes in their repr.
to_text(value) ==
  IF is_string(value) THEN value.v
  ELSE (CASE encode(value.v).v = "None" -> "b'None'" [] OTHER -> "b'...'")

Raise(e) == [err |-> e, value |-> PyNone]

Ok(value) == [err |-> "none", value |-> value]

\* UdfDictionary._setitem, the branch of an existing node: the value after
\* the check against the node's type, or the error raised.
setitem_check(vtype, value) ==
  CASE value.t = "NoneType" -> Ok(value)
    [] vtype \in {"string", "str", "text"} ->
         IF is_string(value) THEN Ok(value) ELSE Raise("TypeError")
    [] vtype = "numeric" ->
         IF isinstance_number(value) THEN Ok(PyStr(value.v)) ELSE Raise("TypeError")
    [] vtype = "boolean" ->
         IF isinstance_bool(value) THEN Ok(true_or_false(value)) ELSE Raise("TypeError")
    [] vtype = "date" ->
         IF isinstance_date(value) THEN Ok(PyStr(value.v)) ELSE Raise("TypeError")
    [] vtype = "uri" ->
         IF is_string(value) THEN Ok(PyStr(value.v)) ELSE Raise("TypeError")
    [] OTHER -> Raise("TypeError")

\* '\n' in value
HasNewline_never(x) == FALSE

HasNewline(x) == x = "two\nlines"

\* UdfDictionary._setitem, the branch of a new entry: the type guessed
\* from the value and the value to write, or the error raised.
setitem_infer(value) ==
  CASE is_string(value) ->
         [err |-> "none", type |-> IF HasNewline(value.v) THEN "Text" ELSE "String",
          value |-> value]
    [] isinstance_bool(value) ->
         [err |-> "none", type |-> "Boolean", value |-> true_or_false(value)]
    [] isinstance_number(value) ->
         [err |-> "none", type |-> "Numeric", value |-> PyStr(value.v)]
    [] isinstance_date(value) ->
         [err |-> "none", type |-> "Date", value |-> PyStr(value.v)]
    [] OTHER -> [err |-> "NotImplementedError", type |-> "", value |-> PyNone]

\* UdfDictionary._parse_element: the value the dictionary gets for an
\* element of this type and text, or the error int/float/strptime raise.
parse_element(T, text) ==
  LET type == lower(T) IN
  CASE text = "" -> Ok(PyNone)
    [] type = "numeric" ->
         IF text \in {"42", "21"} THEN Ok([t |-> "int", v |-> text])
         ELSE IF text \in {"1.5"} THEN Ok([t |-> "float", v |-> text])
         ELSE Raise("ValueError")
    [] type = "boolean" ->
         Ok([t |-> "bool", v |-> IF text = "true" THEN "True" ELSE "False"])
    [] type = "date" ->
         IF text \in {"2019-12-31", "2020-01-02"} THEN Ok([t |-> "date", v |-> text])
         ELSE IF text \in {"b'None'", "b'...'"} THEN Raise("TypeError")
         ELSE Raise("ValueError")
    [] OTHER -> Ok(IF text \in {"b'None'", "b'...'"} THEN [t |-> "bytes", v |-> text] ELSE PyStr(text))

\* dict.__setitem__(self, key, value)
dict_setitem(d, key, value) ==
  [k \in DOMAIN d \cup {key} |-> IF k = key THEN value ELSE d[k]]

\* dict.__delitem__(self, key)
dict_delitem(d, key) == [k \in DOMAIN d \ {key} |-> d[k]]

EmptyDict == [k \in {} |-> PyNone]

\* XmlDictionary._prepare_lookup: parse the elements in order into the
\* dictionary, stopping at the first one that raises.
RECURSIVE prepare_lookup(_, _, _)
prepare_lookup(fields, i, d) ==
  IF i > Len(fields) THEN [err |-> "none", dict |-> d]
  ELSE LET p == parse_element(fields[i].type, fields[i].text) IN
       IF p.err # "none" THEN [err |-> p.err, dict |-> d]
       ELSE prepare_lookup(fields, i + 1, dict_setitem(d, fields[i].name, p.value))

\* UdfDictionary._update_elems without a UDT: the udf:field children of
\* the instance's current root, in document order.
update_elems(h, rid) == [i \in 1..Len(h[rid].fields) |-> Ref(rid, h[rid].fields[i])]

\* node.text = value, on the element object the reference points to.
SetText(h, ref, text) ==
  [h EXCEPT ![ref.rid].fields =
     [i \in DOMAIN @ |-> IF @[i].eid = ref.eid THEN [@[i] EXCEPT !.text = text] ELSE @[i]]]

\* ElementTree.SubElement(root, nsmap('udf:field'), type=vtype, name=key)
SubElement(h, rid, T, key, text) ==
  [h EXCEPT ![rid].fields = Append(@, Field(h[rid].nextEid, T, key, text)),
            ![rid].nextEid = @ + 1]

\* The first node of self._elems whose name attribute is key (0: none).
find_node(elems, key) ==
  LET hits == {i \in DOMAIN elems : elems[i].name = key} IN
  IF hits = {} THEN 0 ELSE CHOOSE i \in hits : \A j \in hits : i <= j

SetDone(op, key, value, err) ==
  [NoLast EXCEPT !.op = op, !.obj = udf.instance, !.key = key, !.value = value, !.err = err]

\* ------------------------- UdfDictionaryDescriptor.__get__ / UdfDictionary()
\* instance.get(); UdfDictionary(instance): _update_elems, _prepare_lookup.
\* When an element does not parse, the constructor raises and no
\* dictionary is returned.
UdfDictionaryDescriptor_get == \E o \in DOMAIN objs :
  LET fetch == needs_fetch(objs[o].root, FALSE)
      r == IF fetch THEN Len(heap) + 1 ELSE objs[o].root
      h == IF fetch THEN Append(heap, ServerDoc(objs[o].uri)) ELSE heap
      p == prepare_lookup(h[r].fields, 1, EmptyDict)
  IN /\ fetch => Len(heap) < MaxRoots
     /\ objs' = [objs EXCEPT ![o].root = r]
     /\ heap' = h
     /\ calls' = get_calls(objs[o].root, FALSE, objs[o].uri)
     /\ udf' = IF p.err = "none"
                 THEN [instance |-> o, elems |-> update_elems(h, r), dict |-> p.dict]
                 ELSE udf
     /\ last' = Done("udf", o, "", p.err)
     /\ UNCHANGED <<cache, server, nops, xlist, hist>>

\* --------------------------------------------- XmlDictionary.__setitem__
\* dict.__setitem__(self, key, value); self._setitem(key, value)
setitem_existing(key, value, n) ==
  LET c == setitem_check(lower(udf.elems[n].type), value) IN
  /\ udf' = [udf EXCEPT !.dict = dict_setitem(udf.dict, key, value)]
  /\ heap' = IF c.err = "none" THEN SetText(heap, udf.elems[n], to_text(c.value)) ELSE heap
  /\ last' = SetDone("setitem", key, value, c.err)

setitem_new(key, value) ==
  LET c == setitem_infer(value)
      r == objs[udf.instance].root
      h == SubElement(heap, r, c.type, key, to_text(c.value))
      p == prepare_lookup(h[r].fields, 1, dict_setitem(udf.dict, key, value))
  IN IF c.err # "none"
       THEN /\ udf' = [udf EXCEPT !.dict = dict_setitem(udf.dict, key, value)]
            /\ heap' = heap
            /\ last' = SetDone("setitem", key, value, c.err)
       ELSE /\ heap' = h
            /\ udf' = [udf EXCEPT !.elems = update_elems(h, r), !.dict = p.dict]
            /\ last' = SetDone("setitem", key, value, p.err)

XmlDictionary_setitem == \E key \in Keys, value \in Values :
  /\ udf # NoProj
  /\ nops < MaxOps
  /\ LET n == find_node(udf.elems, key) IN
       IF n # 0 THEN setitem_existing(key, value, n) ELSE setitem_new(key, value)
  /\ calls' = <<>>
  /\ nops' = nops + 1
  /\ UNCHANGED <<cache, objs, server, xlist, hist>>

\* --------------------------------------------- XmlDictionary.__delitem__
\* dict.__delitem__(self, key) raises KeyError for a key the dictionary
\* does not have; then self._del_item(key), a method no class defines
\* (the subclasses define _delitem): AttributeError, before any element is
\* removed.
XmlDictionary_delitem == \E key \in Keys :
  /\ udf # NoProj
  /\ nops < MaxOps
  /\ IF key \in DOMAIN udf.dict
       THEN /\ udf' = [udf EXCEPT !.dict = dict_delitem(udf.dict, key)]
            /\ last' = SetDone("delitem", key, PyNone, "AttributeError")
       ELSE /\ udf' = udf
            /\ last' = SetDone("delitem", key, PyNone, "KeyError")
  /\ calls' = <<>>
  /\ nops' = nops + 1
  /\ UNCHANGED <<cache, objs, heap, server, xlist, hist>>

\* instance.get(force=True) on the entity the dictionary projects.
Entity_get_force == \E o \in DOMAIN objs : Entity_get_fetch(o, TRUE)

\* One Lab entity, constructed by id and not yet fetched, whose resource
\* on the server has one user-defined field, of any type.
InitUdf ==
  /\ objs = <<[cls |-> "Lab", uri |-> get_uri("Lab", "a1"), root |-> 0]>>
  /\ cache = [u \in {get_uri("Lab", "a1")} |-> 1]
  /\ heap = <<>>
  /\ calls = <<>>
  /\ last = NoLast
  /\ udf = NoProj
  /\ nops = 0
  /\ xlist = NoList
  /\ hist = <<>>
  /\ \E T \in {"String", "Text", "Numeric", "Boolean", "Date", "Uri"} : server = <<Field(1, T, "k1", SampleText(T))>>

NextUdf ==
  \/ UdfDictionaryDescriptor_get
  \/ XmlDictionary_setitem
  \/ XmlDictionary_delitem
  \/ Entity_get_force

SpecUdf == InitUdf /\ [][NextUdf]_vars

\* ======================================================= scalar descriptors
\* StringDescriptor, IntegerDescriptor and BooleanDescriptor on one entity,
\* each bound to its own tag (the tags of the descriptor tests).  A document
\* is [text]: text gives the text of the first child with each tag,
\* NoText when the root has no such child.
ScalarTags == {"name", "count", "istest"}

DescriptorOf(tag) ==
  CASE tag = "name" -> "StringDescriptor"
    [] tag = "count" -> "IntegerDescriptor"
    [] tag = "istest" -> "BooleanDescriptor"

Unwritten == [t |-> "<unwritten>", v |-> ""]

\* lims.get(uri) for the entity: the server's text of each tag.
ScalarDoc == [text |-> server]

\* instance.get() ahead of an access: the root the access works on and the
\* heap that holds it, doc being what the server answers when asked.
Got(o, doc) ==
  LET fetch == needs_fetch(objs[o].root, FALSE) IN
  [fetch |-> fetch,
   r |-> IF fetch THEN Len(heap) + 1 ELSE objs[o].root,
   h |-> IF fetch THEN Append(heap, doc) ELSE heap]

\* str.lower() on the texts a boolean is written and read with.
str_lower_id(x) == x

str_lower(x) ==
  CASE x = "True" -> "true"
    [] x = "False" -> "false"
    [] OTHER -> x

\* __set__: node.text = str(value); BooleanDescriptor: str(value).lower()
descriptor_text(desc, value) ==
  IF desc = "BooleanDescriptor" THEN str_lower(value.v) ELSE value.v

\* __get__: None when the node is absent, else node.text, int(node.text)
\* or node.text.lower() == 'true'.
descriptor_value(desc, text) ==
  CASE text = NoText -> Ok(PyNone)
    [] desc = "StringDescriptor" -> Ok(PyStr(text))
    [] desc = "IntegerDescriptor" ->
         IF text \in {"42", "21"} THEN Ok([t |-> "int", v |-> text]) ELSE Raise("ValueError")
    [] desc = "BooleanDescriptor" ->
         Ok([t |-> "bool", v |-> IF str_lower(text) = "true" THEN "True" ELSE "False"])

ScalarDone(op, o, tag, value, err) ==
  [NoLast EXCEPT !.op = op, !.obj = o, !.key = tag, !.value = value, !.err = err]

\* StringDescriptor.__set__ / BooleanDescriptor.__set__: instance.get(),
\* the node created when absent, node.text set.
TagDescriptor_set == \E o \in DOMAIN objs, tag \in ScalarTags, value \in
    { PyStr("x"), PyStr("21"), PyStr("true"), [t |-> "int", v |-> "21"],
      [t |-> "bool", v |-> "True"], [t |-> "bool", v |-> "False"] } :
  LET g == Got(o, ScalarDoc) IN
  /\ g.fetch => Len(heap) < MaxRoots
  /\ objs' = [objs EXCEPT ![o].root = g.r]
  /\ heap' = [g.h EXCEPT ![g.r].text[tag] = descriptor_text(DescriptorOf(tag), value)]
  /\ calls' = get_calls(objs[o].root, FALSE, objs[o].uri)
  /\ last' = ScalarDone("scalar_set", o, tag, value, "none")
  /\ hist' = [hist EXCEPT ![tag] = value]
  /\ UNCHANGED <<cache, udf, server, nops, xlist>>

\* StringDescriptor.__get__ / IntegerDescriptor.__get__ /
\* BooleanDescriptor.__get__
TagDescriptor_get == \E o \in DOMAIN objs, tag \in ScalarTags :
  LET g == Got(o, ScalarDoc)
      v == descriptor_value(DescriptorOf(tag), g.h[g.r].text[tag])
  IN /\ g.fetch => Len(heap) < MaxRoots
     /\ objs' = [objs EXCEPT ![o].root = g.r]
     /\ heap' = g.h
     /\ calls' = get_calls(objs[o].root, FALSE, objs[o].uri)
     /\ last' = ScalarDone("scalar_get", o, tag, v.value, v.err)
     /\ UNCHANGED <<cache, udf, server, nops, xlist, hist>>

\* instance.get(force=True): the root is replaced by the server's copy and
\* what was written to the old root is no longer in the entity.
Scalar_get_force == \E o \in DOMAIN objs :
  /\ Len(heap) < MaxRoots
  /\ heap' = Append(Release(heap, objs[o].root), ScalarDoc)
  /\ objs' = [objs EXCEPT ![o].root = Len(heap) + 1]
  /\ calls' = get_calls(objs[o].root, TRUE, objs[o].uri)
  /\ last' = Done("get", o, "force", "none")
  /\ hist' = [tag \in ScalarTags |-> Unwritten]
  /\ UNCHANGED <<cache, udf, server, nops, xlist>>

\* One entity, constructed and not yet fetched; on the server each of the
\* three elements is present or absent.
InitScalar ==
  /\ objs = <<[cls |-> "test-entry", uri |-> <<"test-entry", "a1", "">>, root |-> 0]>>
  /\ cache = [u \in {objs[1].uri} |-> 1]
  /\ heap = <<>>
  /\ calls = <<>>
  /\ last = NoLast
  /\ udf = NoProj
  /\ nops = 0
  /\ xlist = NoList
  /\ hist = [tag \in ScalarTags |-> Unwritten]
  /\ \E n \in {NoText, "test name"}, c \in {NoText, "42"}, b \in {NoText, "true"} :
       server = [tag \in ScalarTags |->
                   CASE tag = "name" -> n [] tag = "count" -> c [] tag = "istest" -> b]

NextScalar ==
  \/ TagDescriptor_set
  \/ TagDescriptor_get
  \/ Scalar_get_force

SpecScalar == InitScalar /\ [][NextScalar]_vars

\* ================================================================ Nestable
\* A dictionary declared with nesting (as StepDetails.udf, and the
\* 'cocoon' of the descriptor tests), with a path of two keys.  A document
\* is [nodes]: nodes lists the elements below the root in the order
\* they were appended, each with its tag and its parent (0: the root).
rootkeys == <<"fields", "cocoon">>

Node(tag, parent, name) == [tag |-> tag, parent |-> parent, name |-> name]

\* lims.get(uri): the nodes the server's copy has.
NestDoc == [nodes |-> server]

\* get_sub_node(node, subnode_name): the first child with the tag (0: None)
get_sub_node_none(nodes, at, tag) == 0

get_sub_node(nodes, at, tag) ==
  LET hits == {i \in DOMAIN nodes : nodes[i].parent = at /\ nodes[i].tag = tag} IN
  IF hits = {} THEN 0 ELSE CHOOSE i \in hits : \A j \in hits : i <= j

\* Nestable.rootnode: from the node at, down the keys from the i-th on,
\* appending an element for each key that has no child; the nodes after the
\* descent and the node reached.
RECURSIVE rootnode(_, _, _)
rootnode(nodes, at, i) ==
  IF i > Len(rootkeys) THEN [nodes |-> nodes, node |-> at]
  ELSE LET c == get_sub_node(nodes, at, rootkeys[i]) IN
       IF c # 0 THEN rootnode(nodes, c, i + 1)
       ELSE rootnode(Append(nodes, Node(rootkeys[i], at, "")), Len(nodes) + 1, i + 1)

\* instance.udf: instance.get(), then UdfDictionary(instance, nesting),
\* whose _update_elems calls rootnode.
Nested_get == \E o \in DOMAIN objs :
  LET g == Got(o, NestDoc)
      n == rootnode(g.h[g.r].nodes, 0, 1)
  IN /\ g.fetch => Len(heap) < MaxRoots
     /\ objs' = [objs EXCEPT ![o].root = g.r]
     /\ heap' = [g.h EXCEPT ![g.r].nodes = n.nodes]
     /\ calls' = get_calls(objs[o].root, FALSE, objs[o].uri)
     /\ last' = Done("nested_get", o, "", "none")
     /\ UNCHANGED <<cache, udf, server, nops, xlist, hist>>

\* instance.udf[key] = value with a string: the dictionary is obtained as
\* above; _setitem sets the text of the udf:field under rootnode that has
\* the key, or appends one with SubElement(rootnode, ...).
Nested_setitem == \E o \in DOMAIN objs, key \in Keys :
  LET g == Got(o, NestDoc)
      n == rootnode(g.h[g.r].nodes, 0, 1)
      held == \E i \in DOMAIN n.nodes :
                 /\ n.nodes[i].parent = n.node
                 /\ n.nodes[i].tag = "udf:field"
                 /\ n.nodes[i].name = key
  IN /\ nops < MaxOps
     /\ g.fetch => Len(heap) < MaxRoots
     /\ objs' = [objs EXCEPT ![o].root = g.r]
     /\ heap' = [g.h EXCEPT ![g.r].nodes =
                   IF held THEN n.nodes ELSE Append(n.nodes, Node("udf:field", n.node, key))]
     /\ calls' = get_calls(objs[o].root, FALSE, objs[o].uri)
     /\ last' = [Done("nested_set", o, "", "none") EXCEPT !.key = key]
     /\ nops' = nops + 1
     /\ UNCHANGED <<cache, udf, server, xlist, hist>>

Nested_get_force == \E o \in DOMAIN objs :
  /\ Len(heap) < MaxRoots
  /\ heap' = Append(Release(heap, objs[o].root), NestDoc)
  /\ objs' = [objs EXCEPT ![o].root = Len(heap) + 1]
  /\ calls' = get_calls(objs[o].root, TRUE, objs[o].uri)
  /\ last' = Done("get", o, "force", "none")
  /\ UNCHANGED <<cache, udf, server, nops, xlist, hist>>

InitNest ==
  /\ objs = <<[cls |-> "StepDetails", uri |-> <<"steps", "a1", "details">>, root |-> 0]>>
  /\ cache = [u \in {objs[1].uri} |-> 1]
  /\ heap = <<>>
  /\ calls = <<>>
  /\ last = NoLast
  /\ udf = NoProj
  /\ nops = 0
  /\ xlist = NoList
  /\ hist = <<>>
  \* The documents the server can hold: no intermediate, the first one
  \* only, both, the second key directly under the root, and the second
  \* key under a second element of the first key.
  /\ server \in
       { <<>>,
         <<Node("fields", 0, "")>>,
         <<Node("fields", 0, ""), Node("cocoon", 1, "")>>,
         <<Node("cocoon", 0, "")>>,
         <<Node("fields", 0, ""), Node("fields", 0, ""), Node("cocoon", 2, "")>> }

NextNest ==
  \/ Nested_get
  \/ Nested_setitem
  \/ Nested_get_force

SpecNest == InitNest /\ [][NextNest]_vars

\* ======================================================== EntityDescriptor
\* Researcher.lab = EntityDescriptor('lab', Lab) on one Researcher.  A
\* document is [labs]: labs lists the uri attributes of the root's
\* children with the tag 'lab', in document order.
LabURIs == {<<"labs", "a1", "">>, <<"labs", "a2", "">>}

\* lims.get(uri) for the researcher.
RefDoc == [labs |-> server]

\* Lab(lims, uri=u) and, against the class of the resource, Step(lims, uri=u)
Ref_construct == \E cls \in {"Lab", "Step"}, u \in LabURIs :
  Entity_new_hit(cls, u) \/ Entity_new_miss(cls, u)

\* Lab.create(lims, name=...)
Ref_create == Entity_create_ok("Lab", "name", "a1")

\* EntityDescriptor.__get__: instance.get(); the first child with the tag;
\* None without one, else self.klass(instance.lims, uri=node.attrib['uri']),
\* which Entity.__new__ answers from lims.cache when the uri is there.
EntityDescriptor_get == \E o \in DOMAIN objs :
  LET g == Got(o, RefDoc)
      labs == g.h[g.r].labs
  IN /\ objs[o].cls = "Researcher"
     /\ g.fetch => Len(heap) < MaxRoots
     /\ heap' = g.h
     /\ calls' = get_calls(objs[o].root, FALSE, objs[o].uri)
     /\ IF labs = <<>>
          THEN /\ objs' = [objs EXCEPT ![o].root = g.r]
               /\ UNCHANGED cache
               /\ last' = Done("ref_get", 0, "", "none")
          ELSE IF InCache(labs[1])
            THEN /\ objs' = [objs EXCEPT ![o].root = g.r]
                 /\ UNCHANGED cache
                 /\ last' = [Done("ref_get", cache[labs[1]], "", "none") EXCEPT !.uri = labs[1]]
            ELSE /\ objs' = Append([objs EXCEPT ![o].root = g.r],
                                   [cls |-> "Lab", uri |-> labs[1], root |-> 0])
                 /\ cache' = [x \in DOMAIN cache \cup {labs[1]} |->
                                IF x = labs[1] THEN Len(objs) + 1 ELSE cache[x]]
                 /\ last' = [Done("ref_get", Len(objs) + 1, "", "none") EXCEPT !.uri = labs[1]]
     /\ UNCHANGED <<udf, server, nops, xlist, hist>>

\* EntityDescriptor.__set__: instance.get(); the first child with the tag,
\* created and appended when there is none; node.attrib['uri'] = value.uri
EntityDescriptor_set == \E o \in DOMAIN objs, v \in DOMAIN objs :
  LET g == Got(o, RefDoc)
      labs == g.h[g.r].labs
  IN /\ objs[o].cls = "Researcher"
     /\ v # o
     /\ g.fetch => Len(heap) < MaxRoots
     /\ objs' = [objs EXCEPT ![o].root = g.r]
     /\ heap' = [g.h EXCEPT ![g.r].labs =
                   IF labs = <<>> THEN <<objs[v].uri>> ELSE [labs EXCEPT ![1] = objs[v].uri]]
     /\ calls' = get_calls(objs[o].root, FALSE, objs[o].uri)
     /\ last' = [Done("ref_set", v, "", "none") EXCEPT !.uri = objs[v].uri]
     /\ hist' = v
     /\ UNCHANGED <<cache, udf, server, nops, xlist>>

Ref_get_force == \E o \in DOMAIN objs :
  /\ objs[o].cls = "Researcher"
  /\ Len(heap) < MaxRoots
  /\ heap' = Append(Release(heap, objs[o].root), RefDoc)
  /\ objs' = [objs EXCEPT ![o].root = Len(heap) + 1]
  /\ calls' = get_calls(objs[o].root, TRUE, objs[o].uri)
  /\ last' = Done("get", o, "force", "none")
  /\ hist' = 0
  /\ UNCHANGED <<cache, udf, server, nops, xlist>>

\* One Researcher, constructed and not yet fetched; on the server it has
\* no lab element or one.
InitRef ==
  /\ objs = <<[cls |-> "Researcher", uri |-> <<"researchers", "a1", "">>, root |-> 0]>>
  /\ cache = [u \in {objs[1].uri} |-> 1]
  /\ heap = <<>>
  /\ calls = <<>>
  /\ last = NoLast
  /\ udf = NoProj
  /\ nops = 0
  /\ xlist = NoList
  /\ hist = 0
  /\ \E labs \in {<<>>} \cup {<<u>> : u \in LabURIs} : server = labs

NextRef ==
  \/ Ref_construct
  \/ Ref_create
  \/ EntityDescriptor_get
  \/ EntityDescriptor_set
  \/ Ref_get_force

SpecRef == InitRef /\ [][NextRef]_vars

\* ================================================================== XmlList
\* Artifact.samples = EntityListDescriptor('sample', Sample) on one
\* Artifact.  A document is [children, nextEid]: children lists the
\* root's children in document order, each [eid, tag, uri]; the list
\* projection holds references [rid, eid, uri] to the elements with its
\* tag and, as its own list content, the entities, each given by its uri.
SampleURIs == {"s1", "s2"}

Child(eid, tag, u) == [eid |-> eid, tag |-> tag, uri |-> u]

ListDoc == [children |-> server, nextEid |-> Len(server) + 1]

\* The index values and the lists the operations are called with.
Indexes == {-1, 0, 1}

ItemLists == {<<>>, <<"s1">>, <<"s2", "s1">>}

\* A Python index on a sequence of n entries, as a position 1..n (a
\* position outside is an IndexError), and the number of entries that
\* list.insert(i, x) leaves before x.
PyIndex(i, n) == IF i < 0 THEN n + i + 1 ELSE i + 1

list_insert(s, i, x) ==
  LET n == Len(s)
      p == IF i < 0 THEN (IF n + i < 0 THEN 0 ELSE n + i) ELSE (IF i > n THEN n ELSE i)
  IN SubSeq(s, 1, p) \o <<x>> \o SubSeq(s, p + 1, Len(s))

\* TagXmlList._update_elems: the children of rootnode with the list's tag.
list_update_elems(h, rid) ==
  LET hit == SelectSeq(h[rid].children, LAMBDA e : e.tag = "sample") IN
  [i \in DOMAIN hit |-> [rid |-> rid, eid |-> hit[i].eid, uri |-> hit[i].uri]]

\* _additem for each value in turn: _create_new_node, rootnode.append(node)
RECURSIVE additems(_, _, _)
additems(h, rid, values) ==
  IF values = <<>> THEN h
  ELSE additems([h EXCEPT ![rid].children = Append(@, Child(h[rid].nextEid, "sample", Head(values))),
                          ![rid].nextEid = @ + 1],
                rid, Tail(values))

ListDone(op, err) == [NoLast EXCEPT !.op = op, !.obj = xlist.instance, !.err = err]

\* EntityListDescriptor.__get__: instance.get(); EntityList(...), whose
\* constructor runs _update_elems and _prepare_list.
EntityListDescriptor_get == \E o \in DOMAIN objs :
  LET g == Got(o, ListDoc)
      e == list_update_elems(g.h, g.r)
  IN /\ g.fetch => Len(heap) < MaxRoots
     /\ objs' = [objs EXCEPT ![o].root = g.r]
     /\ heap' = g.h
     /\ calls' = get_calls(objs[o].root, FALSE, objs[o].uri)
     /\ xlist' = [instance |-> o, elems |-> e, items |-> [i \in DOMAIN e |-> e[i].uri]]
     /\ last' = Done("list", o, "", "none")
     /\ UNCHANGED <<cache, udf, server, nops, hist>>

\* EntityListDescriptor.__set__(self, instance, cls, value), as
\* AttributeListDescriptor.__set__: an assignment calls __set__ with the
\* instance and the value only, so the call fails on the missing argument
\* before instance.get(), clear() and extend(value) are reached.
EntityListDescriptor_set == \E o \in DOMAIN objs, value \in ItemLists :
  /\ calls' = <<>>
  /\ last' = [Done("assign", o, "", "TypeError") EXCEPT !.value = value]
  /\ UNCHANGED <<cache, objs, heap, udf, server, nops, xlist, hist>>

\* What every list operation leaves alone, and its count against MaxOps.
ListFrame ==
  /\ xlist # NoList
  /\ nops < MaxOps
  /\ nops' = nops + 1
  /\ calls' = <<>>
  /\ UNCHANGED <<cache, objs, udf, server, hist>>

\* append(item), extend(iterable), __iadd__(other_list): the nodes are
\* appended, _elems rescanned, and the list method extends the list.
XmlList_grow(op, values) ==
  LET r == objs[xlist.instance].root
      h == additems(heap, r, values)
  IN /\ ListFrame
     /\ heap' = h
     /\ xlist' = [xlist EXCEPT !.elems = list_update_elems(h, r), !.items = @ \o values]
     /\ last' = ListDone(op, "none")

XmlList_append == \E item \in SampleURIs : XmlList_grow("append", <<item>>)

XmlList_extend == \E values \in ItemLists : XmlList_grow("extend", values)

XmlList_iadd == \E values \in ItemLists : XmlList_grow("iadd", values)

\* __add__(other_list): the nodes are appended and _elems rescanned; what
\* is returned is list.__add__(self, other_list), a new list, and the
\* projection's own content stays as it was.
XmlList_add == \E values \in ItemLists :
  LET r == objs[xlist.instance].root
      h == additems(heap, r, values)
  IN /\ ListFrame
     /\ heap' = h
     /\ xlist' = [xlist EXCEPT !.elems = list_update_elems(h, r)]
     /\ last' = ListDone("add", "none")

\* insert(i, item): rootnode.insert(i, node) places the node among all the
\* children of the root; list.insert(self, i, item) among the entries.
XmlList_insert == \E i \in Indexes, item \in SampleURIs :
  LET r == objs[xlist.instance].root
      h == [heap EXCEPT ![r].children = list_insert(@, i, Child(heap[r].nextEid, "sample", item)),
                        ![r].nextEid = @ + 1]
  IN /\ ListFrame
     /\ heap' = h
     /\ xlist' = [xlist EXCEPT !.elems = list_update_elems(h, r),
                               !.items = list_insert(@, i, item)]
     /\ last' = ListDone("insert", "none")

\* __setitem__(i, item) with an integer: _setitem removes self._elems[i]
\* from rootnode (IndexError without such an entry, ValueError when the
\* element is not a child of the current root) and inserts the new node
\* at i among all the children; then _update_elems and list.__setitem__.
XmlList_setitem == \E i \in Indexes, item \in SampleURIs :
  LET r == objs[xlist.instance].root
      n == PyIndex(i, Len(xlist.elems))
      m == PyIndex(i, Len(xlist.items))
      old == xlist.elems[n]
      rest == SelectSeq(heap[r].children, LAMBDA e : e.eid # old.eid)
      h == [heap EXCEPT ![r].children = list_insert(rest, i, Child(heap[r].nextEid, "sample", item)),
                        ![r].nextEid = @ + 1]
  IN /\ ListFrame
     /\ IF n \notin DOMAIN xlist.elems
          THEN /\ UNCHANGED <<heap, xlist>>
               /\ last' = ListDone("setitem", "IndexError")
          ELSE IF old.rid # r \/ ~\E k \in DOMAIN heap[r].children : heap[r].children[k].eid = old.eid
            THEN /\ UNCHANGED <<heap, xlist>>
                 /\ last' = ListDone("setitem", "ValueError")
            ELSE /\ heap' = h
                 /\ IF m \in DOMAIN xlist.items
                      THEN /\ xlist' = [xlist EXCEPT !.elems = list_update_elems(h, r),
                                                     !.items[m] = item]
                           /\ last' = ListDone("setitem", "none")
                      ELSE /\ xlist' = [xlist EXCEPT !.elems = list_update_elems(h, r)]
                           /\ last' = ListDone("setitem", "IndexError")

\* __setitem__(slice, items): zip(i, item) on a slice object
XmlList_setitem_slice ==
  /\ ListFrame
  /\ UNCHANGED <<heap, xlist>>
  /\ last' = ListDone("setslice", "TypeError")

\* clear(): dict.clear(self) on an object that is a list, not a dict
XmlList_clear ==
  /\ ListFrame
  /\ UNCHANGED <<heap, xlist>>
  /\ last' = ListDone("clear", "TypeError")

\* instance.get(force=True): the list keeps the elements of the old root.
List_get_force == \E o \in DOMAIN objs :
  /\ Len(heap) < MaxRoots
  /\ heap' = Append(Release(heap, objs[o].root), ListDoc)
  /\ objs' = [objs EXCEPT ![o].root = Len(heap) + 1]
  /\ calls' = get_calls(objs[o].root, TRUE, objs[o].uri)
  /\ last' = Done("get", o, "force", "none")
  /\ UNCHANGED <<cache, udf, server, nops, xlist, hist>>

InitList ==
  /\ objs = <<[cls |-> "Artifact", uri |-> <<"artifacts", "a1", "">>, root |-> 0]>>
  /\ cache = [u \in {objs[1].uri} |-> 1]
  /\ heap = <<>>
  /\ calls = <<>>
  /\ last = NoLast
  /\ udf = NoProj
  /\ nops = 0
  /\ xlist = NoList
  /\ hist = <<>>
  \* The children the server's copy can have: other tags before, between
  \* and after the sample elements, or none.
  /\ server \in
       { <<Child(1, "sample", "s1")>>,
         <<Child(1, "name", ""), Child(2, "sample", "s1")>>,
         <<Child(1, "sample", "s1"), Child(2, "name", ""), Child(3, "sample", "s2")>> }

NextList ==
  \/ EntityListDescriptor_get
  \/ EntityListDescriptor_set
  \/ XmlList_append
  \/ XmlList_extend
  \/ XmlList_iadd
  \/ XmlList_add
  \/ XmlList_insert
  \/ XmlList_setitem
  \/ XmlList_setitem_slice
  \/ XmlList_clear
  \/ List_get_force

SpecList == InitList /\ [][NextList]_vars

\* ==================================================== UdfDictionary with UDT
\* An entity with both descriptors, udf = UdfDictionaryDescriptor() and
\* udt = UdtDictionaryDescriptor() (as StepDetails).  A document is
\* [fields, utype]: fields are the udf:field children of the root and
\* utype the udf:type child, [present, name, fields].  The dictionary is
\* [instance, elems, dict, udt], udt being self._udt: False, True or the
\* name read from the wrapper.
PyFalse == [t |-> "bool", v |-> "False"]

UdtDoc == [fields |-> server.fields, utype |-> server.utype, nextEid |-> 21]

\* Python truth of self._udt
truthy(x) == x \notin {PyFalse, PyNone, PyStr("")}

\* UdfDictionary.get_udt
get_udt(_udt) == IF _udt = [t |-> "bool", v |-> "True"] THEN PyNone ELSE _udt

\* UdfDictionary._update_elems: with a true _udt the udf:field children of
\* the udf:type element, whose name replaces _udt; else those of rootnode.
udt_update_elems(h, rid, _udt) ==
  LET f == IF truthy(_udt) THEN h[rid].utype.fields ELSE h[rid].fields IN
  [udt |-> IF truthy(_udt) /\ h[rid].utype.present THEN PyStr(h[rid].utype.name) ELSE _udt,
   elems |-> [i \in DOMAIN f |-> Ref(rid, f[i])]]

\* UdfDictionaryDescriptor.__get__ / UdtDictionaryDescriptor.__get__:
\* instance.get(); UdfDictionary(instance, udt=self._UDT)
UdtDictionaryDescriptor_get == \E o \in DOMAIN objs, _UDT \in {PyFalse, [t |-> "bool", v |-> "True"]} :
  LET g == Got(o, UdtDoc)
      u == udt_update_elems(g.h, g.r, _UDT)
      f == IF truthy(_UDT) THEN g.h[g.r].utype.fields ELSE g.h[g.r].fields
  IN /\ g.fetch => Len(heap) < MaxRoots
     /\ objs' = [objs EXCEPT ![o].root = g.r]
     /\ heap' = g.h
     /\ calls' = get_calls(objs[o].root, FALSE, objs[o].uri)
     /\ udf' = [instance |-> o, elems |-> u.elems,
                dict |-> prepare_lookup(f, 1, EmptyDict).dict, udt |-> u.udt]
     /\ hist' = _UDT
     /\ last' = Done(IF truthy(_UDT) THEN "udt" ELSE "udf", o, "", "none")
     /\ UNCHANGED <<cache, server, nops, xlist>>

\* for elem in self._elems: self.rootnode(self.instance).remove(elem), from
\* the i-th element on: the children of rootnode that are left, and the
\* ValueError of the first element that is not a child of rootnode.
RECURSIVE remove_elems(_, _, _, _)
remove_elems(fields, rid, elems, i) ==
  IF i > Len(elems) THEN [err |-> "none", fields |-> fields]
  ELSE IF elems[i].rid = rid /\ \E k \in DOMAIN fields : fields[k].eid = elems[i].eid
    THEN remove_elems(SelectSeq(fields, LAMBDA e : e.eid # elems[i].eid), rid, elems, i + 1)
    ELSE [err |-> "ValueError", fields |-> fields]

\* XmlDictionary.clear: dict.clear(self); the removals; self._update_elems()
XmlDictionary_clear ==
  LET r == objs[udf.instance].root
      rm == remove_elems(heap[r].fields, r, udf.elems, 1)
      h == [heap EXCEPT ![r].fields = rm.fields]
      u == udt_update_elems(h, r, udf.udt)
  IN /\ udf.instance # 0
     /\ nops < MaxOps
     /\ nops' = nops + 1
     /\ heap' = h
     /\ udf' = IF rm.err = "none"
                 THEN [udf EXCEPT !.dict = EmptyDict, !.elems = u.elems, !.udt = u.udt]
                 ELSE [udf EXCEPT !.dict = EmptyDict]
     /\ calls' = <<>>
     /\ last' = SetDone("clear", "", PyNone, rm.err)
     /\ UNCHANGED <<cache, objs, server, xlist, hist>>

\* for k in dict_value: udf_dict[k] = dict_value[k], from the i-th key on,
\* on a dictionary that clear has left without elements: no node has the
\* key, so _setitem infers the type, appends a new element to the fields
\* of its root and parses the elements again.
RECURSIVE setitem_new_all(_, _, _, _)
setitem_new_all(fields, eid, M, i) ==
  IF i > Len(M) THEN [err |-> "none", fields |-> fields, eid |-> eid]
  ELSE LET c == setitem_infer(M[i][2])
           f == Append(fields, Field(eid, c.type, M[i][1], to_text(c.value)))
           p == prepare_lookup(f, 1, EmptyDict)
       IN IF c.err # "none" THEN [err |-> c.err, fields |-> fields, eid |-> eid]
          ELSE IF p.err # "none" THEN [err |-> p.err, fields |-> f, eid |-> eid + 1]
          ELSE setitem_new_all(f, eid + 1, M, i + 1)

\* UdfDictionaryDescriptor.__set__ / UdtDictionaryDescriptor.__set__:
\* instance.get(); udf_dict = UdfDictionary(instance, udt=self._UDT);
\* udf_dict.clear(); then each key of dict_value is set, in its order.  M
\* is dict_value as its (key, value) pairs.  With a UDT the new elements go
\* under the udf:type element; SubElement raises TypeError without one.
UdfDictionaryDescriptor_set ==
  \E o \in DOMAIN objs, _UDT \in {PyFalse, [t |-> "bool", v |-> "True"]},
     M \in { <<>>,
             << <<"k1", PyStr("new")>> >>,
             << <<"k2", [t |-> "int", v |-> "21"]>>, <<"k3", [t |-> "bool", v |-> "True"]>> >>,
             << <<"k1", [t |-> "list", v |-> "[]"]>> >> } :
  LET g == Got(o, UdtDoc)
      r == g.r
      u == udt_update_elems(g.h, r, _UDT)
      p == prepare_lookup(IF truthy(_UDT) THEN g.h[r].utype.fields ELSE g.h[r].fields,
                          1, EmptyDict)
      rm == remove_elems(g.h[r].fields, r, u.elems, 1)
      cleared == [g.h EXCEPT ![r].fields = rm.fields]
      nowrapper == truthy(_UDT) /\ ~cleared[r].utype.present
      s == setitem_new_all(IF truthy(_UDT) THEN cleared[r].utype.fields ELSE cleared[r].fields,
                           cleared[r].nextEid, M, 1)
      err == IF p.err # "none" THEN p.err
             ELSE IF rm.err # "none" THEN rm.err
             ELSE IF nowrapper /\ M # <<>>
               THEN (IF setitem_infer(M[1][2]).err # "none"
                       THEN setitem_infer(M[1][2]).err ELSE "TypeError")
             ELSE s.err
  IN /\ g.fetch => Len(heap) < MaxRoots
     /\ nops < MaxOps
     /\ nops' = nops + 1
     /\ objs' = [objs EXCEPT ![o].root = r]
     /\ heap' = IF p.err # "none" THEN g.h
                ELSE IF rm.err # "none" \/ nowrapper THEN cleared
                ELSE IF truthy(_UDT)
                  THEN [cleared EXCEPT ![r].utype.fields = s.fields, ![r].nextEid = s.eid]
                ELSE [cleared EXCEPT ![r].fields = s.fields, ![r].nextEid = s.eid]
     /\ calls' = get_calls(objs[o].root, FALSE, objs[o].uri)
     /\ last' = [Done("assign", o, IF truthy(_UDT) THEN "udt" ELSE "udf", err)
                   EXCEPT !.value = M]
     /\ UNCHANGED <<cache, udf, server, xlist, hist>>

\* The udt property read: get_udt
UdfDictionary_get_udt ==
  /\ udf.instance # 0
  /\ calls' = <<>>
  /\ last' = SetDone("get_udt", "", get_udt(udf.udt), "none")
  /\ UNCHANGED <<cache, objs, heap, udf, server, nops, xlist, hist>>

\* The udt property written with a string: set_udt.  AttributeError when
\* _udt is false; else _udt is set, and the name of the udf:type element,
\* which the assert requires to be there.
UdfDictionary_set_udt == \E name \in {"T2"} :
  LET r == objs[udf.instance].root IN
  /\ udf.instance # 0
  /\ nops < MaxOps
  /\ nops' = nops + 1
  /\ calls' = <<>>
  /\ IF ~truthy(udf.udt)
       THEN /\ UNCHANGED <<heap, udf>>
            /\ last' = SetDone("set_udt", "", PyStr(name), "AttributeError")
       ELSE /\ udf' = [udf EXCEPT !.udt = PyStr(name)]
            /\ IF heap[r].utype.present
                 THEN /\ heap' = [heap EXCEPT ![r].utype.name = name]
                      /\ last' = SetDone("set_udt", "", PyStr(name), "none")
                 ELSE /\ UNCHANGED heap
                      /\ last' = SetDone("set_udt", "", PyStr(name), "AssertionError")
  /\ UNCHANGED <<cache, objs, server, xlist, hist>>

Udt_get_force == \E o \in DOMAIN objs :
  /\ Len(heap) < MaxRoots
  /\ heap' = Append(Release(heap, objs[o].root), UdtDoc)
  /\ objs' = [objs EXCEPT ![o].root = Len(heap) + 1]
  /\ calls' = get_calls(objs[o].root, TRUE, objs[o].uri)
  /\ last' = Done("get", o, "force", "none")
  /\ UNCHANGED <<cache, udf, server, nops, xlist, hist>>

\* One entity, not yet fetched, whose resource has up to two fields under
\* the root and no udf:type element, an empty one, or one with a field.
InitUdt ==
  /\ objs = <<[cls |-> "StepDetails", uri |-> <<"steps", "a1", "details">>, root |-> 0]>>
  /\ cache = [u \in {objs[1].uri} |-> 1]
  /\ heap = <<>>
  /\ calls = <<>>
  /\ last = NoLast
  /\ udf = [instance |-> 0, elems |-> <<>>, dict |-> EmptyDict, udt |-> PyFalse]
  /\ nops = 0
  /\ xlist = NoList
  /\ hist = PyFalse
  /\ \E f \in {<<>>, <<Field(1, "String", "k1", "other")>>,
               <<Field(1, "String", "k1", "other"), Field(2, "Numeric", "k2", "42")>>},
        t \in {[present |-> FALSE, name |-> "", fields |-> <<>>],
               [present |-> TRUE, name |-> "T1", fields |-> <<>>],
               [present |-> TRUE, name |-> "T1",
                fields |-> <<Field(11, "String", "k1", "other")>>]} :
       server = [fields |-> f, utype |-> t]

NextUdt ==
  \/ UdtDictionaryDescriptor_get
  \/ UdfDictionaryDescriptor_set
  \/ XmlDictionary_clear
  \/ UdfDictionary_get_udt
  \/ UdfDictionary_set_udt
  \/ Udt_get_force

SpecUdt == InitUdt /\ [][NextUdt]_vars

\* ======================================================= InputOutputMapList
\* Process.input_output_maps on one Process.  A document is [maps]: the
\* input-output-map children of the root in document order, each with an
\* input and an output side, <<>> when the element is absent and else one
\* node [text, uris, parent]: its attributes with a text value, its
\* attributes with a uri value, and the uri of its parent-process
\* sub-element (<<>> without one).
IOKeys_short == {"limsid"}

IOKeys == {"limsid", "output-type", "output-generation-type"}

IOUriKeys == <<"uri", "post-process-uri">>

ArtifactURI(i) == <<"artifacts", i, "">>

\* The nodes a side can be: any of three text attributes (one of them not
\* a key of the map), the two uri attributes and the sub-element, each
\* present or absent.  The limsid is the id the uri ends with.
IONodes ==
  { [text |-> [k \in t |-> IF k = "limsid" THEN "1" ELSE "v"],
     uris |-> [k \in u |-> ArtifactURI(IF k = "uri" THEN "1" ELSE "1pp")],
     parent |-> p] :
      t \in SUBSET {"limsid", "output-type", "type"},
      u \in SUBSET {"uri", "post-process-uri"},
      p \in {<<>>, <<<<"processes", "1", "">>>>} }

\* The output of the descriptor test, for the artifact the inputs name.
TestOutput ==
  [text |-> [k \in {"limsid", "output-type", "output-generation-type"} |-> "v"],
   uris |-> [k \in {"uri"} |-> ArtifactURI("1")],
   parent |-> <<>>]

\* The constructions get_dict makes for a side, in order:
\* Artifact(lims, uri=...) for each uri attribute, then
\* Process(lims, uri) for the parent-process.
side_constructions(side) ==
  IF side = <<>> THEN <<>>
  ELSE LET node == side[1] IN
       [i \in DOMAIN SelectSeq(IOUriKeys, LAMBDA k : k \in DOMAIN node.uris) |->
          [cls |-> "Artifact",
           uri |-> node.uris[SelectSeq(IOUriKeys, LAMBDA k : k \in DOMAIN node.uris)[i]]]]
       \o [i \in DOMAIN node.parent |-> [cls |-> "Process", uri |-> node.parent[i]]]

RECURSIVE map_constructions(_, _)
map_constructions(maps, i) ==
  IF i > Len(maps) THEN <<>>
  ELSE side_constructions(maps[i].input) \o side_constructions(maps[i].output)
         \o map_constructions(maps, i + 1)

\* Entity.__new__ / __init__ for each construction in turn: the cached
\* object for the uri, or a new one of the class, cached under the uri.
RECURSIVE construct_all(_, _, _, _)
construct_all(os, c, todo, i) ==
  IF i > Len(todo) THEN [objs |-> os, cache |-> c]
  ELSE IF todo[i].uri \in DOMAIN c THEN construct_all(os, c, todo, i + 1)
  ELSE construct_all(Append(os, [cls |-> todo[i].cls, uri |-> todo[i].uri, root |-> 0]),
                     [x \in DOMAIN c \cup {todo[i].uri} |->
                        IF x = todo[i].uri THEN Len(os) + 1 ELSE c[x]],
                     todo, i + 1)

\* InputOutputMapList.get_dict: None (<<>>) for no node, else the
\* dictionary, c being lims.cache after the constructions.  A value is
\* [t, v, o]: the text v of an attribute, or the entity o.
get_dict(side, c) ==
  IF side = <<>> THEN <<>>
  ELSE LET node == side[1]
           keys == (DOMAIN node.text \cap IOKeys) \cup DOMAIN node.uris
                     \cup (IF node.parent = <<>> THEN {} ELSE {"parent-process"})
       IN << [k \in keys |->
                IF k \in DOMAIN node.uris
                  THEN [t |-> "entity", v |-> "", o |-> c[node.uris[k]]]
                ELSE IF k = "parent-process"
                  THEN [t |-> "entity", v |-> "", o |-> c[node.parent[1]]]
                ELSE [t |-> "str", v |-> node.text[k], o |-> 0]] >>

\* InputOutputMapList.__get__: instance.get(); one (input, output) pair
\* for each input-output-map child of rootnode.
InputOutputMapList_get == \E o \in DOMAIN objs :
  LET g == Got(o, [maps |-> server])
      maps == g.h[g.r].maps
      n == construct_all([objs EXCEPT ![o].root = g.r], cache, map_constructions(maps, 1), 1)
  IN /\ objs[o].cls = "Process"
     /\ g.fetch => Len(heap) < MaxRoots
     /\ heap' = g.h
     /\ objs' = n.objs
     /\ cache' = n.cache
     /\ calls' = get_calls(objs[o].root, FALSE, objs[o].uri)
     /\ last' = [Done("iomap", o, "", "none") EXCEPT !.value =
                   [i \in DOMAIN maps |->
                      <<get_dict(maps[i].input, n.cache), get_dict(maps[i].output, n.cache)>>]]
     /\ UNCHANGED <<udf, server, nops, xlist, hist>>

\* Artifact(lims, uri=u) and, against the class of the resource,
\* Process(lims, uri=u), ahead of a read of the map.
IO_construct == \E cls \in {"Artifact", "Process"}, u \in {ArtifactURI("1"), ArtifactURI("1pp")} :
  Entity_new_hit(cls, u) \/ Entity_new_miss(cls, u)

\* Process.all_inputs(): the limsid of the input of every pair of
\* input_output_maps, TypeError (logged, raised again) at the first pair
\* whose input is None and KeyError at the first whose input has no
\* limsid; then Artifact(lims, id=id) for each distinct id.
Process_all_inputs == \E o \in DOMAIN objs :
  LET g == Got(o, [maps |-> server])
      maps == g.h[g.r].maps
      n == construct_all([objs EXCEPT ![o].root = g.r], cache, map_constructions(maps, 1), 1)
      bad == {i \in DOMAIN maps :
                maps[i].input = <<>> \/ "limsid" \notin DOMAIN maps[i].input[1].text}
      first == CHOOSE i \in bad : \A j \in bad : i <= j
      ids == {maps[i].input[1].text["limsid"] : i \in DOMAIN maps}
      list == CHOOSE s \in [1..Cardinality(ids) -> ids] : \A x \in ids : \E i \in DOMAIN s : s[i] = x
      m == construct_all(n.objs, n.cache,
                         [i \in DOMAIN list |-> [cls |-> "Artifact", uri |-> ArtifactURI(list[i])]], 1)
  IN /\ objs[o].cls = "Process"
     /\ g.fetch => Len(heap) < MaxRoots
     /\ heap' = g.h
     /\ calls' = get_calls(objs[o].root, FALSE, objs[o].uri)
     /\ IF bad # {}
          THEN /\ objs' = n.objs
               /\ cache' = n.cache
               /\ last' = Done("all_inputs", o, "",
                               IF maps[first].input = <<>> THEN "TypeError" ELSE "KeyError")
          ELSE /\ objs' = m.objs
               /\ cache' = m.cache
               /\ last' = [Done("all_inputs", o, "", "none") EXCEPT !.value =
                             [i \in DOMAIN list |-> m.cache[ArtifactURI(list[i])]]]
     /\ UNCHANGED <<udf, server, nops, xlist, hist>>

\* One Process, not yet fetched, whose resource has no map, or one or two:
\* the first with any input and no output or the test's output, the
\* second with the test's output only.
InitIO ==
  /\ objs = <<[cls |-> "Process", uri |-> <<"processes", "p0", "">>, root |-> 0]>>
  /\ cache = [u \in {objs[1].uri} |-> 1]
  /\ heap = <<>>
  /\ calls = <<>>
  /\ last = NoLast
  /\ udf = NoProj
  /\ nops = 0
  /\ xlist = NoList
  /\ hist = <<>>
  /\ \E i \in {<<>>} \cup {<<n>> : n \in IONodes}, out \in {<<>>, <<TestOutput>>},
        more \in {<<>>, <<[input |-> <<>>, output |-> <<TestOutput>>]>>} :
       server \in {<<>>, <<[input |-> i, output |-> out]>> \o more}

NextIO ==
  \/ InputOutputMapList_get
  \/ Process_all_inputs
  \/ IO_construct

SpecIO == InitIO /\ [][NextIO]_vars

\* ====================================================== PlacementDictionary
\* Container.placements on one Container.  A document is [placements,
\* nextEid]: the placement children of the root in document order, each
\* [eid, uri, value] with the uri attribute and the text of its value
\* sub-element.  udf is the dictionary obtained: its entity, its _elems and
\* its content, an Artifact for each key.  A key is a Python value [t, v].
PlacementDoc == [placements |-> server, nextEid |-> Len(server) + 1]

\* PlacementDictionary._update_elems: the placement children of the root.
placement_update_elems(h, rid) ==
  [i \in DOMAIN h[rid].placements |-> [rid |-> rid, eid |-> h[rid].placements[i].eid]]

\* _prepare_lookup with PlacementDictionary._parse_element, from the i-th
\* element on: the text of the value sub-element is the key of
\* Artifact(lims, uri=element.attrib['uri']), c being lims.cache after the
\* constructions.
RECURSIVE placement_lookup(_, _, _, _)
placement_lookup(ps, c, i, d) ==
  IF i > Len(ps) THEN d
  ELSE placement_lookup(ps, c, i + 1, dict_setitem(d, PyStr(ps[i].value), c[ps[i].uri]))

\* PlacementDictionaryDescriptor.__get__: instance.get();
\* PlacementDictionary(instance)
PlacementDictionaryDescriptor_get == \E o \in DOMAIN objs :
  LET g == Got(o, PlacementDoc)
      ps == g.h[g.r].placements
      n == construct_all([objs EXCEPT ![o].root = g.r], cache,
                         [i \in DOMAIN ps |-> [cls |-> "Artifact", uri |-> ps[i].uri]], 1)
  IN /\ objs[o].cls = "Container"
     /\ g.fetch => Len(heap) < MaxRoots
     /\ heap' = g.h
     /\ objs' = n.objs
     /\ cache' = n.cache
     /\ calls' = get_calls(objs[o].root, FALSE, objs[o].uri)
     /\ udf' = [instance |-> o, elems |-> placement_update_elems(g.h, g.r),
                dict |-> placement_lookup(ps, n.cache, 1, EmptyDict)]
     /\ last' = Done("placements", o, "", "none")
     /\ UNCHANGED <<server, nops, xlist, hist>>

\* XmlDictionary.__setitem__ with PlacementDictionary._setitem:
\* dict.__setitem__(self, key, value); ValueError for a key that is not a
\* str; else a new placement element, with its value sub-element, is
\* appended to the root.  _elems is not updated.
PlacementDictionary_setitem ==
  \E key \in {PyStr("A:1"), PyStr("C:1"), [t |-> "int", v |-> "1"]}, value \in DOMAIN objs :
  LET r == objs[udf.instance].root IN
  /\ udf.instance # 0
  /\ objs[value].cls = "Artifact"
  /\ nops < MaxOps
  /\ nops' = nops + 1
  /\ udf' = [udf EXCEPT !.dict = dict_setitem(udf.dict, key, value)]
  /\ IF ~is_string(key)
       THEN /\ heap' = heap
            /\ last' = [Done("setitem", udf.instance, "", "ValueError") EXCEPT !.key = key]
       ELSE /\ heap' = [heap EXCEPT
                          ![r].placements =
                             Append(@, [eid |-> heap[r].nextEid, uri |-> objs[value].uri,
                                        value |-> key.v]),
                          ![r].nextEid = @ + 1]
            /\ last' = [Done("setitem", udf.instance, "", "none") EXCEPT !.key = key]
  /\ calls' = <<>>
  /\ UNCHANGED <<cache, objs, server, xlist, hist>>

\* PlacementDictionaryDescriptor.__set__: instance.get();
\* placement_dict = PlacementDictionary(instance); then each key of
\* dict_value is set, in its order: one placement element is appended for
\* each.  M is dict_value as its (key, value) pairs.
PlacementDictionaryDescriptor_set ==
  \E o \in DOMAIN objs, value \in DOMAIN objs :
  \E M \in { <<>>, << <<"A:1", value>> >>, << <<"C:1", value>>, <<"D:1", value>> >> } :
  LET g == Got(o, PlacementDoc)
      ps == g.h[g.r].placements
      n == construct_all([objs EXCEPT ![o].root = g.r], cache,
                         [i \in DOMAIN ps |-> [cls |-> "Artifact", uri |-> ps[i].uri]], 1)
  IN /\ objs[o].cls = "Container"
     /\ objs[value].cls = "Artifact"
     /\ g.fetch => Len(heap) < MaxRoots
     /\ nops < MaxOps
     /\ nops' = nops + 1
     /\ heap' = [g.h EXCEPT
                   ![g.r].placements =
                      @ \o [i \in DOMAIN M |->
                              [eid |-> g.h[g.r].nextEid + i - 1, uri |-> objs[M[i][2]].uri,
                               value |-> M[i][1]]],
                   ![g.r].nextEid = @ + Len(M)]
     /\ objs' = n.objs
     /\ cache' = n.cache
     /\ calls' = get_calls(objs[o].root, FALSE, objs[o].uri)
     /\ last' = [Done("assign", o, "", "none") EXCEPT !.value = M]
     /\ UNCHANGED <<udf, server, xlist, hist>>

\* One Container, not yet fetched, and one Artifact; the container's
\* resource has no placement, one, or two with different keys.
InitPlacement ==
  /\ objs = <<[cls |-> "Container", uri |-> <<"containers", "c1", "">>, root |-> 0],
              [cls |-> "Artifact", uri |-> ArtifactURI("1"), root |-> 0]>>
  /\ cache = [u \in {objs[1].uri, objs[2].uri} |-> IF u = objs[1].uri THEN 1 ELSE 2]
  /\ heap = <<>>
  /\ calls = <<>>
  /\ last = NoLast
  /\ udf = NoProj
  /\ nops = 0
  /\ xlist = NoList
  /\ hist = <<>>
  /\ server \in { <<>>,
                   <<[eid |-> 1, uri |-> ArtifactURI("1"), value |-> "A:1"]>>,
                   <<[eid |-> 1, uri |-> ArtifactURI("1"), value |-> "A:1"],
                     [eid |-> 2, uri |-> ArtifactURI("2"), value |-> "B:1"]>> }

NextPlacement ==
  \/ PlacementDictionaryDescriptor_get
  \/ PlacementDictionary_setitem
  \/ PlacementDictionaryDescriptor_set

SpecPlacement == InitPlacement /\ [][NextPlacement]_vars

\* ================================================================= claims
Fetched(o) == objs[o].root # 0

OneCall(verb, u) == Len(calls') = 1 /\ calls'[1].verb = verb /\ calls'[1].uri = u

\* C1: within one cache, a construction for a URI returns the instance the
\* cache holds for that URI, and the cache never drops or rebinds an entry:
\* two constructions of one class with the same URI return the same
\* instance, which carries every change made through either handle.
C1_SameInstance ==
  [][ /\ \A u \in DOMAIN cache : u \in DOMAIN cache' /\ cache'[u] = cache[u]
      /\ last'.op = "construct" =>
           /\ cache'[last'.uri] = last'.obj
           /\ objs'[last'.obj].uri = last'.uri ]_vars

\* Two constructions for one URI have happened and the instance carries an
\* edit made before the second one.
C1_Witness ==
  /\ last.op = "construct"
  /\ Fetched(last.obj)
  /\ heap[objs[last.obj].root].name = "loc"
  /\ objs[last.obj].cls = last.arg

\* C2: get() without force fetches exactly when the entity has no root;
\* on a fetched entity it makes no call and leaves the root and the
\* documents as they are, so two calls in a row fetch once.
C2_GetIdempotent ==
  [][ (last'.op = "get" /\ last'.arg = "") =>
        LET o == last'.obj IN
          /\ Fetched(o) => calls' = <<>> /\ objs'[o].root = objs[o].root /\ heap' = heap
          /\ ~Fetched(o) => OneCall("GET", objs[o].uri) /\ objs'[o].root = Len(heap) + 1 ]_vars

\* A get() without force has returned early on a fetched entity.
C2_Witness ==
  last.op = "get" /\ last.arg = "" /\ calls = <<>> /\ Fetched(last.obj)

\* C3: a successful create() makes one POST and no GET; the new entity's
\* root is the response document and its uri the one the response carries.
C3_CreateNoGet ==
  [][ (last'.op = "create" /\ last'.err = "none") =>
        LET o == last'.obj IN
          /\ OneCall("POST", get_uri_coll(last'.arg))
          /\ objs'[o].root = Len(heap) + 1
          /\ Len(heap') = Len(heap) + 1
          /\ objs'[o].uri = heap'[objs'[o].root].uri ]_vars

\* create(name=...) has returned, the payload built through a descriptor.
C3_Witness ==
  /\ last.op = "create" /\ last.err = "none"
  /\ heap[objs[last.obj].root].name = "loc"

\* C4 (as stated): the entity create() returns is the cache's entry for
\* its uri.
C4_CreatedIsCached ==
  (last.op = "create" /\ last.err = "none") =>
     /\ InCache(objs[last.obj].uri)
     /\ cache[objs[last.obj].uri] = last.obj

\* C5 (as stated): a construction for a URI the cache holds makes no
\* transport call and leaves every root and document as it was.
C5_CachedUntouched ==
  [][ (last'.op = "construct" /\ last'.uri \in DOMAIN cache) =>
        calls' = <<>> /\ objs' = objs /\ heap' = heap ]_vars

\* C6: put() and post() change neither the entity (root, uri), the
\* documents nor the cache, and when they return they have made the one
\* call of their verb, on the entity's uri, with the serialized root.
C6_PutPostFrame ==
  [][ last'.op \in {"put", "post"} =>
        LET o == last'.obj IN
          /\ objs' = objs /\ heap' = heap /\ cache' = cache
          /\ last'.err = "none" =>
               calls' = <<Call(IF last'.op = "put" THEN "PUT" ELSE "POST",
                               objs[o].uri, tostring(heap[objs[o].root]))>> ]_vars

\* post() has sent an edited root of an entity whose uri is not the
\* collection uri.
C6_Witness ==
  /\ last.op = "post" /\ last.err = "none"
  /\ Len(calls) = 1 /\ calls[1].verb = "POST" /\ calls[1].data.xml_name = "loc"

\* C8: a descriptor read or write leaves the entity fetched; it fetches
\* (once) exactly when the entity had no root, reads or edits the root that
\* get() left in place, and on a fetched entity makes no call.
C8_FetchBeforeAccess ==
  [][ last'.op \in {"read", "write"} =>
        LET o == last'.obj IN
          /\ objs'[o].root # 0
          /\ last'.arg = heap'[objs'[o].root].name
          /\ ~Fetched(o) => OneCall("GET", objs[o].uri) /\ objs'[o].root = Len(heap) + 1
          /\ Fetched(o) => calls' = <<>> /\ objs'[o].root = objs[o].root ]_vars

\* A descriptor has read an entity that it had to fetch first.
C8_Witness ==
  /\ last.op = "read"
  /\ Len(calls) = 1 /\ calls[1].verb = "GET"

\* The text of the element a reference points to (the element stays under
\* the root it was found under).
ElemText(h, ref) ==
  LET f == h[ref.rid].fields IN f[CHOOSE i \in DOMAIN f : f[i].eid = ref.eid].text

\* C7 (as stated): a set through a dictionary that returns changes no
\* document but the entity's current root, also when the root was
\* replaced after the dictionary was obtained.
C7_MutatesCurrentRoot ==
  [][ (last'.op = "setitem" /\ last'.err = "none") =>
        \A r \in DOMAIN heap : r # objs[udf.instance].root => heap'[r] = heap[r] ]_vars

\* C9 (as stated): after each set that returns and each delete of a key
\* the dictionary has, the current root has as many field elements as the
\* dictionary has keys, and no two of them have the same name.
C9_ElementsMatchKeys ==
  [][ ( \/ last'.op = "setitem" /\ last'.err = "none"
        \/ last'.op = "delitem" /\ last'.key \in DOMAIN udf.dict ) =>
        LET f == heap'[objs'[udf'.instance].root].fields IN
          /\ Len(f) = Cardinality(DOMAIN udf'.dict)
          /\ \A i, j \in DOMAIN f : f[i].name = f[j].name => i = j ]_vars

\* The type table of the claim, and the text it says is stored.
C10_ClaimAccepts(vtype, value) ==
  \/ vtype \in {"string", "text", "uri"} /\ value.t = "str"
  \/ vtype = "numeric" /\ value.t \in {"int", "float"}
  \/ vtype = "boolean" /\ value.t = "bool"
  \/ vtype = "date" /\ value.t = "date"

C10_ClaimStored(vtype, value) ==
  IF vtype = "boolean" THEN (IF value.v = "True" THEN "true" ELSE "false") ELSE value.v

\* The table the code implements: None passes every type and is stored as
\* the bytes b'None'; a bool passes as a number and is stored as str(value).
C10_Accepts(vtype, value) ==
  \/ C10_ClaimAccepts(vtype, value)
  \/ value.t = "NoneType"
  \/ vtype = "numeric" /\ value.t = "bool"

C10_Stored(vtype, value) ==
  IF value.t = "NoneType" THEN "b'None'" ELSE C10_ClaimStored(vtype, value)

C11_Type(value) ==
  CASE value.t = "str" -> IF value.v = "two\nlines" THEN "Text" ELSE "String"
    [] value.t = "bool" -> "Boolean"
    [] value.t \in {"int", "float"} -> "Numeric"
    [] value.t = "date" -> "Date"
    [] OTHER -> ""

C11_Text(value) ==
  IF value.t = "bool" THEN (IF value.v = "True" THEN "true" ELSE "false") ELSE value.v

\* C11: a set on a key that no element of the dictionary holds appends
\* exactly one field element to the current root, named by the key, with
\* the type inferred from the value and the value's text, and leaves every
\* other element and document alone; a value of any other shape fails
\* with NotImplementedError and appends nothing.
C11_NewKeyInferred ==
  [][ (last'.op = "setitem" /\ find_node(udf.elems, last'.key) = 0) =>
        LET r == objs[udf.instance].root
            f == heap[r].fields
            g == heap'[r].fields
        IN IF C11_Type(last'.value) # ""
             THEN /\ Len(g) = Len(f) + 1
                  /\ SubSeq(g, 1, Len(f)) = f
                  /\ g[Len(g)].name = last'.key
                  /\ g[Len(g)].type = C11_Type(last'.value)
                  /\ g[Len(g)].text = C11_Text(last'.value)
                  /\ \A x \in DOMAIN heap : x # r => heap'[x] = heap[x]
                  /\ last'.err # "NotImplementedError"
             ELSE last'.err = "NotImplementedError" /\ heap' = heap ]_vars

\* A string with a newline was set on the new key k2 and the root got a
\* Text field for it.
C11_Witness ==
  /\ last.op = "setitem" /\ last.key = "k2" /\ last.err = "none"
  /\ last.value = PyStr("two\nlines")
  /\ LET f == heap[objs[udf.instance].root].fields IN
       /\ Len(f) = 2
       /\ f[2].name = "k2" /\ f[2].type = "Text" /\ f[2].text = "two\nlines"

\* C17 (as stated): a delete of a key that the dictionary has and that an
\* element holds returns, removes that element from the current root and
\* the key from the dictionary, and leaves every other element alone.
C17_DeleteRemovesElement ==
  [][ ( /\ last'.op = "delitem"
        /\ last'.key \in DOMAIN udf.dict
        /\ find_node(udf.elems, last'.key) # 0 ) =>
        LET r == objs[udf.instance].root
            gone == udf.elems[find_node(udf.elems, last'.key)].eid
        IN /\ last'.err = "none"
           /\ last'.key \notin DOMAIN udf'.dict
           /\ heap'[r].fields = SelectSeq(heap[r].fields, LAMBDA e : e.eid # gone) ]_vars

\* The writes the claim covers for each descriptor, and what it says is
\* stored and read back.
C12_Covers(desc, value) ==
  CASE desc = "StringDescriptor" -> value.t = "str"
    [] desc = "IntegerDescriptor" -> value.t = "int" \/ value = PyStr("21")
    [] desc = "BooleanDescriptor" -> value.t = "bool"

C12_Text(desc, value) ==
  IF desc = "BooleanDescriptor" THEN (IF value.v = "True" THEN "true" ELSE "false")
  ELSE value.v

C12_Reads(desc, value) ==
  IF desc = "IntegerDescriptor" THEN [t |-> "int", v |-> value.v] ELSE value

\* C12: a read of a scalar attribute that was written since the last forced
\* refetch returns the written value under the descriptor's encoding (the
\* written string, the integer of 21 or "21", the written boolean), and the
\* backing element holds the encoded text ("21", "true"/"false"), whether
\* or not the element was in the document the server gave.
C12_ReadsBackWritten ==
  [][ ( /\ last'.op = "scalar_get"
        /\ hist[last'.key] # Unwritten
        /\ C12_Covers(DescriptorOf(last'.key), hist[last'.key]) ) =>
        LET desc == DescriptorOf(last'.key)
            written == hist[last'.key]
        IN /\ last'.err = "none"
           /\ last'.value = C12_Reads(desc, written)
           /\ heap'[objs'[last'.obj].root].text[last'.key] = C12_Text(desc, written) ]_vars

\* The integer attribute, absent on the server, was written as the string
\* "21" and read back as the integer 21.
C12_Witness ==
  /\ last.op = "scalar_get" /\ last.key = "count" /\ last.err = "none"
  /\ server["count"] = NoText
  /\ hist["count"] = PyStr("21")
  /\ last.value = [t |-> "int", v |-> "21"]
  /\ heap[objs[1].root].text["count"] = "21"

\* The element each key of the path leads to in a document (0 when it is
\* missing), following the first child with the tag at each level.
C13_First(nodes, at, tag) ==
  IF \E i \in DOMAIN nodes : nodes[i].parent = at /\ nodes[i].tag = tag
    THEN CHOOSE i \in DOMAIN nodes :
           /\ nodes[i].parent = at /\ nodes[i].tag = tag
           /\ \A j \in 1..(i - 1) : ~(nodes[j].parent = at /\ nodes[j].tag = tag)
    ELSE 0

C13_Chain(nodes) ==
  LET a == C13_First(nodes, 0, "fields")
      b == IF a = 0 THEN 0 ELSE C13_First(nodes, a, "cocoon")
  IN <<a, b>>

C13_Intermediates(nodes) ==
  Cardinality({i \in DOMAIN nodes : nodes[i].tag \in {"fields", "cocoon"}})

\* The nodes of the entity's root as an access finds them: the server's
\* when the access fetches first.
C13_Before(o) == IF objs[o].root = 0 THEN server ELSE heap[objs[o].root].nodes

\* C13: a write through the nested path leaves both intermediates in
\* place under the current root, the second a child of the first, having
\* kept the ones that were there and added one element for each one that
\* was missing and no other; a write or a read that finds the path
\* complete adds no intermediate element.
C13_IntermediatesOnce ==
  [][ last'.op \in {"nested_set", "nested_get"} =>
        LET o == last'.obj
            before == C13_Before(o)
            after == heap'[objs'[o].root].nodes
            was == C13_Chain(before)
            is == C13_Chain(after)
            missing == Cardinality({i \in 1..2 : was[i] = 0})
        IN /\ last'.op = "nested_set" =>
                /\ is[1] # 0 /\ is[2] # 0
                /\ after[is[1]].parent = 0 /\ after[is[2]].parent = is[1]
                /\ \A i \in 1..2 : was[i] # 0 => is[i] = was[i]
                /\ SubSeq(after, 1, Len(before)) = before
                /\ C13_Intermediates(after) = C13_Intermediates(before) + missing
           /\ missing = 0 => C13_Intermediates(after) = C13_Intermediates(before) ]_vars

\* The server's document had the first intermediate only; a write added
\* the second under it and the field under that, and a later write through
\* the same path added a second field and no intermediate.
C13_Witness ==
  /\ server = <<Node("fields", 0, "")>>
  /\ last.op = "nested_set" /\ nops = 2
  /\ heap[objs[1].root].nodes =
       <<Node("fields", 0, ""), Node("cocoon", 1, ""),
         Node("udf:field", 2, "k1"), Node("udf:field", 2, "k2")>>

\* The lab children of the root an access works on: the server's when the
\* access fetches first.
C14_Labs(o) == IF objs[o].root = 0 THEN server ELSE heap[objs[o].root].labs

\* C14 (as stated): a read of the lab attribute returns None when the
\* document has no lab child, and otherwise the cached entity for the
\* child's uri, which is a Lab, whatever was constructed before.
C14_ReadsConfiguredClass ==
  [][ last'.op = "ref_get" =>
        LET labs == C14_Labs(1) IN
        IF labs = <<>> THEN last'.obj = 0
        ELSE /\ last'.obj # 0
             /\ objs'[last'.obj].uri = labs[1]
             /\ cache'[labs[1]] = last'.obj
             /\ objs'[last'.obj].cls = "Lab" ]_vars

\* C15 (as stated): a write sets the uri of the one lab child, creating
\* it only when the document has none, so that the document has exactly
\* one lab child afterwards; a read that follows writes returns the entity
\* written last.
C15_ReadsLastWritten ==
  [][ /\ last'.op = "ref_set" =>
           LET labs == C14_Labs(1)
               now == heap'[objs'[1].root].labs
           IN /\ Len(now) = 1
              /\ now[1] = objs[last'.obj].uri
              /\ labs # <<>> => Len(labs) = 1
      /\ (last'.op = "ref_get" /\ hist # 0) => last'.obj = hist ]_vars

\* The uris of the sample elements of a document, in document order.
C16_Rescan(doc) ==
  LET hit == SelectSeq(doc.children, LAMBDA e : e.tag = "sample") IN
  [i \in DOMAIN hit |-> hit[i].uri]

\* C16 (as stated): every index set, insert, append, extend, concatenation
\* and clear on a list projection returns, and leaves the projection's
\* entries equal, in order, to the sample elements of the entity's root.
C16_ListMatchesRescan ==
  [][ last'.op \in {"setitem", "setslice", "insert", "append", "extend", "iadd", "add", "clear"} =>
        /\ last'.err = "none"
        /\ xlist'.items = C16_Rescan(heap'[objs'[xlist'.instance].root]) ]_vars

\* C18 (as stated): clear() on a dictionary returns and leaves it without
\* keys and the document without backing elements of the dictionary: the
\* fields under the root for a plain one, those under the udf:type element
\* for a UDT one.
C18_ClearRemovesAll ==
  [][ last'.op = "clear" =>
        LET doc == heap'[objs'[udf'.instance].root] IN
        /\ last'.err = "none"
        /\ DOMAIN udf'.dict = {}
        /\ IF truthy(hist) THEN doc.utype.fields = <<>> ELSE doc.fields = <<>> ]_vars

\* C19 (as stated): the type name read from a dictionary that was obtained
\* from the descriptor without UDT support is None.
C19_UdtNoneWithoutSupport ==
  [][ (last'.op = "get_udt" /\ hist = PyFalse) => last'.value = PyNone ]_vars

\* The keys the claim gives the dictionary of a node: those of the five
\* attributes that the node has, and parent-process with the sub-element.
C20_Keys(node) ==
  ((DOMAIN node.text \cup DOMAIN node.uris)
      \cap {"limsid", "output-type", "output-generation-type", "uri", "post-process-uri"})
    \cup (IF node.parent = <<>> THEN {} ELSE {"parent-process"})

C20_Side(side, res) ==
  IF side = <<>> THEN res = <<>>
  ELSE /\ Len(res) = 1
       /\ DOMAIN res[1] = C20_Keys(side[1])
       /\ \A k \in DOMAIN side[1].uris :
            /\ res[1][k].t = "entity"
            /\ objs'[res[1][k].o].uri = side[1].uris[k]
            /\ cache'[side[1].uris[k]] = res[1][k].o

\* C20: a read of the input/output map returns one pair for each
\* input-output-map element, in document order; a side is None when its
\* element is absent, and else a dictionary whose keys are exactly the
\* attributes among limsid, output-type, output-generation-type, uri and
\* post-process-uri that the element has, with parent-process when it has
\* that sub-element; a uri value is the cached entity of that uri.
C20_MapPairs ==
  [][ last'.op = "iomap" =>
        LET maps == server
            res == last'.value
        IN /\ Len(res) = Len(maps)
           /\ \A i \in DOMAIN maps :
                /\ C20_Side(maps[i].input, res[i][1])
                /\ C20_Side(maps[i].output, res[i][2]) ]_vars

\* A map was read whose input has limsid, an attribute that is not a key,
\* uri and a parent-process, and which has no output; a second map follows.
C20_Witness ==
  /\ last.op = "iomap"
  /\ Len(server) = 2
  /\ server[1].output = <<>>
  /\ server[1].input # <<>>
  /\ DOMAIN server[1].input[1].text = {"limsid", "type"}
  /\ DOMAIN server[1].input[1].uris = {"uri"}
  /\ server[1].input[1].parent # <<>>
  /\ Len(last.value) = 2
  /\ last.value[1][2] = <<>>
  /\ DOMAIN last.value[1][1][1] = {"limsid", "uri", "parent-process"}
  /\ DOMAIN last.value[2][2][1] = {"limsid", "output-type", "output-generation-type", "uri"}

\* C21: all_inputs() on a process with no input-output-map element, or
\* with a map that has no input element, raises an error; it does not
\* return a list.
C21_AbsentMapsRaise ==
  [][ /\ last'.op = "all_inputs"
      /\ server = <<>> \/ \E i \in DOMAIN server : server[i].input = <<>>
      => last'.err # "none" ]_vars

\* What holds of the code: a map without an input element raises
\* TypeError, and no map at all returns the empty list.
C21_NoInputRaises ==
  [][ last'.op = "all_inputs" =>
        /\ (\E i \in DOMAIN server : server[i].input = <<>>) => last'.err \in {"TypeError", "KeyError"}
        /\ server = <<>> => last'.err = "none" /\ last'.value = <<>> ]_vars

\* C22: when the transport raises in get(), get(force=True), put(), post()
\* or create(), the caller gets that error and nothing has changed: every
\* entity has the root and the URI it had (an unfetched one is still
\* unfetched), the documents are as they were, and the cache has the same
\* entries.
C22_TransportFailureFrame ==
  [][ last'.err = "TransportError" =>
        /\ last'.op \in {"get", "put", "post", "create"}
        /\ objs' = objs
        /\ heap' = heap
        /\ cache' = cache ]_vars

\* A forced get of a fetched entity failed, beside an unfetched entity.
C22_Witness ==
  /\ last.err = "TransportError"
  /\ last.op = "get"
  /\ last.arg = "force"
  /\ objs[last.obj].root # 0
  /\ \E o \in DOMAIN objs : objs[o].root = 0

\* C23: after a set that returns, on a dictionary whose elements are those
\* of the entity's current root, a dictionary freshly constructed over
\* that root is constructed without error and has the same keys and
\* values.
C23_NoDrift ==
  [][ /\ last'.op = "setitem"
      /\ last'.err = "none"
      /\ \A i \in DOMAIN udf.elems : udf.elems[i].rid = objs[udf.instance].root
      => LET fresh == prepare_lookup(heap'[objs'[udf'.instance].root].fields, 1, EmptyDict)
         IN fresh.err = "none" /\ fresh.dict = udf'.dict ]_vars

\* What holds of the code: a set that returns keeps a dictionary that
\* agrees with a fresh one in agreement, unless the value is None, the
\* empty string, or a bool written to an existing Numeric field.
C23_NoDriftOrdinary ==
  [][ /\ last'.op = "setitem"
      /\ last'.err = "none"
      /\ \A i \in DOMAIN udf.elems : udf.elems[i].rid = objs[udf.instance].root
      /\ prepare_lookup(heap[objs[udf.instance].root].fields, 1, EmptyDict)
           = [err |-> "none", dict |-> udf.dict]
      /\ last'.value \notin {PyNone, PyStr("")}
      /\ ~ /\ last'.value.t = "bool"
            /\ \E i \in DOMAIN udf.elems :
                 udf.elems[i].name = last'.key /\ udf.elems[i].type = "Numeric"
      => prepare_lookup(heap'[objs'[udf'.instance].root].fields, 1, EmptyDict)
           = [err |-> "none", dict |-> udf'.dict] ]_vars

\* The fields a mapping gives under the type rules, as (type, name, text).
C24_Expected(M) ==
  [i \in DOMAIN M |->
     LET c == setitem_infer(M[i][2]) IN <<c.type, M[i][1], to_text(c.value)>>]

\* The backing fields of the attribute after the step: those under the
\* udf:type element for a UDT, else those under the root.
C24_Backing(o, arg) ==
  LET d == heap'[objs'[o].root]
      f == IF arg = "udt" THEN d.utype.fields ELSE d.fields
  IN [i \in DOMAIN f |-> <<f[i].type, f[i].name, f[i].text>>]

\* C24: after a mapping of supported values is assigned to a udf or udt
\* attribute, the backing fields are exactly one for each key of the
\* mapping, with its value under the type rules, and none of the fields
\* that were there before is left.
C24_BulkReplace ==
  [][ /\ last'.op = "assign"
      /\ \A i \in DOMAIN last'.value : setitem_infer(last'.value[i][2]).err = "none"
      => C24_Backing(last'.obj, last'.arg) = C24_Expected(last'.value) ]_vars

\* What holds of the code: the same for the plain udf attribute.
C24_PlainReplace ==
  [][ /\ last'.op = "assign"
      /\ last'.arg = "udf"
      /\ \A i \in DOMAIN last'.value : setitem_infer(last'.value[i][2]).err = "none"
      => /\ last'.err = "none"
         /\ C24_Backing(last'.obj, last'.arg) = C24_Expected(last'.value) ]_vars

\* The keys a dictionary over the placements ps has.
C26_Keys(ps) == {ps[i].value : i \in DOMAIN ps}

\* C26: a set on a placement dictionary that has as many keys as its
\* document has placement elements, and an assignment to the placements
\* attribute of a document with one key for each placement element, leave
\* as many placement elements as keys.
C26_OneKeyPerPlacement ==
  [][ /\ /\ last'.op = "setitem"
         /\ last'.err = "none"
         /\ Len(heap[objs[udf.instance].root].placements) = Cardinality(DOMAIN udf.dict)
         => Len(heap'[objs[udf.instance].root].placements) = Cardinality(DOMAIN udf'.dict)
      /\ /\ last'.op = "assign"
         /\ Len(server) = Cardinality(C26_Keys(server))
         => LET ps == heap'[objs'[last'.obj].root].placements
            IN Len(ps) = Cardinality(C26_Keys(ps)) ]_vars

\* What holds of the code: every set that returns appends one placement
\* element, so the counts stay equal exactly when the key is new.
C26_SetAppends ==
  [][ last'.op = "setitem" /\ last'.err = "none" =>
        LET r == objs[udf.instance].root IN
        /\ Len(heap'[r].placements) = Len(heap[r].placements) + 1
        /\ heap'[r].placements[Len(heap'[r].placements)].value = last'.key.v ]_vars

\* C25: after a mutator of a projection returns (here a set on a placement
\* dictionary), the projection's element list is the list of matching
\* elements of the entity's current document, in document order.
C25_ElemsRescanned ==
  [][ last'.op = "setitem" /\ last'.err = "none" =>
        udf'.elems = placement_update_elems(heap', objs'[udf'.instance].root) ]_vars

\* What holds of the code: a list set, insert, append, extend or += that
\* returns leaves the list's elements equal to a rescan of the entity's
\* current root.
C25_ListElemsRescanned ==
  [][ /\ last'.op \in {"setitem", "insert", "append", "extend", "iadd"}
      /\ last'.err = "none"
      => xlist'.elems = list_update_elems(heap', objs'[xlist'.instance].root) ]_vars

\* C27: assigning a sequence of entities to an entity-list attribute
\* returns, and leaves under the entity's root exactly one element with
\* the list's tag for each assigned entity, in the assigned order.
C27_AssignReplaces ==
  [][ last'.op = "assign" =>
        /\ last'.err = "none"
        /\ C16_Rescan(heap'[objs'[last'.obj].root]) = last'.value ]_vars

\* C28: the cache is well formed after every step: the entity under a
\* URI has that URI, which is a real one; an entry that was there is
\* still there, with the same entity; and a creation adds no entry, so
\* the entity it builds without a URI is never one.
C28_CacheWellFormed ==
  [][ /\ \A u \in DOMAIN cache' :
           /\ u # NoURI
           /\ cache'[u] \in DOMAIN objs'
           /\ objs'[cache'[u]].uri = u
      /\ \A u \in DOMAIN cache : u \in DOMAIN cache' /\ cache'[u] = cache[u]
      /\ last'.op = "create" =>
           /\ cache' = cache
           /\ \A u \in DOMAIN cache' : cache'[u] # last'.obj ]_vars

\* An entity was created while another one is in the cache.
C28_Witness ==
  /\ last.op = "create"
  /\ last.err = "none"
  /\ DOMAIN cache # {}
  /\ \A u \in DOMAIN cache : cache[u] # last.obj /\ objs[cache[u]].uri = u

\* C29: a read through a descriptor, here obtaining the dictionary of a
\* nested attribute, leaves the entity's document as it was: the fetched
\* one on a first access, else the one before the read.
C29_ReadLeavesDocument ==
  [][ last'.op = "nested_get" =>
        heap'[objs'[last'.obj].root].nodes =
          IF objs[last'.obj].root # 0 THEN heap[objs[last'.obj].root].nodes ELSE server ]_vars

\* What holds of the code: the read leaves the document as it was when
\* every element of the nesting path is there.
C29_ReadLeavesCompletePath ==
  [][ /\ last'.op = "nested_get"
      /\ LET before == IF objs[last'.obj].root # 0
                         THEN heap[objs[last'.obj].root].nodes ELSE server
             first == get_sub_node(before, 0, rootkeys[1])
         IN first # 0 /\ get_sub_node(before, first, rootkeys[2]) # 0
      => heap'[objs'[last'.obj].root].nodes =
           IF objs[last'.obj].root # 0 THEN heap[objs[last'.obj].root].nodes ELSE server ]_vars

\* C30: a set that raises leaves the dictionary's content and the
\* documents as they were before the call.
C30_FailedSetAtomic ==
  [][ last'.op = "setitem" /\ last'.err # "none" =>
        /\ udf'.dict = udf.dict
        /\ heap' = heap ]_vars

\* What holds of the code: a set that raises, on a dictionary over a
\* document whose fields all parse, leaves the documents as they were.
C30_FailedSetKeepsDocument ==
  [][ /\ last'.op = "setitem"
      /\ last'.err # "none"
      /\ prepare_lookup(heap[objs[udf.instance].root].fields, 1, EmptyDict).err = "none"
      => heap' = heap ]_vars

====
